---- MODULE Spec2Model ----
(***************************************************************************)
(* A model of izaber_wamp_zerp/generate_types.py: the compiler from the    *)
(* remote model metadata to type declarations, and run(), which drives it  *)
(* over the whole catalog.                                                 *)
(*                                                                         *)
(* Representation.                                                         *)
(*  - An identifier or path is a sequence of chunks: each chunk is "." or  *)
(*    "_" or a word holding neither, so str.replace(".", "_") and string   *)
(*    concatenation are computed on the sequence and two identifiers are   *)
(*    the same string exactly when they are the same sequence.             *)
(*  - A call that may raise returns [raised |-> <exception name or         *)
(*    "none">, value |-> <the value returned>].                            *)
(*  - A default string is a sequence of lexical tokens; ast.parse and      *)
(*    ast.literal_eval are computed on it by a parser and an evaluator.    *)
(***************************************************************************)
EXTENDS Integers, Sequences, FiniteSets, TLC

VARIABLES
    pc,              \* where run() is: start, base, loop, done, raised; idle outside run()
    fail_on_error,   \* run()'s parameter
    remote,          \* the catalog the remote service holds
    model_metadata,  \* the catalog get_all_model_metadata() returns: an ordered mapping, as a sequence of [name, meta]
    position,        \* the number of catalog entries the loop of run() has taken
    progress,        \* DisplayHandler.progress (ModelProgress)
    successes,       \* DisplayHandler.successes
    directory_exists, \* whether MODEL_DIRECTORY exists
    files,           \* the output directory: path -> content written
    events,          \* history: the creates, the writes, the exceptions raised and the handler's marks, in order
    stdout,          \* the summaries printed, in order
    registry,        \* the tree TypedZERPModel.generate_ast returned to run(), or NotBuilt
    exc,             \* the exception that left run(), or "none"
    call,            \* a function called on its own and its arguments (SpecCalls, SpecProxy, SpecCli)
    ret,             \* what that function returned or raised
    wamp_calls,      \* the operations made on the connection (wamp), in order, each with its outcome
    has_decodestring, \* whether the base64 of the interpreter has decodestring (it has not from Python 3.9 on)
    uri_base,        \* wamp.wamp.uri_base
    uri_base_bkp,    \* the local uri_base_bkp of call_uri, publish_uri and subscribe_uri
    full_uri,        \* their local full_uri
    sub_metadata     \* the local sub_metadata of do_sub

\* The state of the proxy of controller.py and of the prompt of wampcli.py.
proxyVars == <<wamp_calls, has_decodestring>>

cliVars == <<uri_base, uri_base_bkp, full_uri, sub_metadata>>

vars == <<pc, fail_on_error, remote, model_metadata, position, progress, successes,
          directory_exists, files, events, stdout, registry, exc, call, ret, proxyVars, cliVars>>

\* What run() owns, but for pc.
runFrame == <<fail_on_error, remote, model_metadata, position, progress, successes,
              directory_exists, files, events, stdout, registry, exc>>

runVars == <<pc, fail_on_error, remote, model_metadata, position, progress, successes,
             directory_exists, files, events, stdout, registry, exc>>

----------------------------------------------------------------------------
(* Bounds of the model *)

\* The longest catalog that is explored.
MaxModels == 3

\* The longest default string (in tokens) that is explored.
MaxDefaultLen == 3

\* The most fields of a model that RecordModel.generate_ast is called on.
MaxFields == 2

----------------------------------------------------------------------------
(* Python values and exceptions *)

Ok(v) == [raised |-> "none", value |-> v]

Raise(e) == [raised |-> e, value |-> <<>>]

IsOk(r) == r.raised = "none"

\* The rest of a computation: K of the value that r returned, or the exception r raised.
Bind(r, K(_)) == IF r.raised = "none" THEN K(r.value) ELSE r

\* try: r / except <caught>: handler
Except(r, caught, handler) == IF r.raised \in caught THEN handler ELSE r

\* Optional[int] = None: the overload_position that is not given.
None_position == -1

\* Python objects that a default value or a constant node can hold.
PyNone == [py |-> "NoneType", n |-> 0, items |-> <<>>, text |-> <<>>]

PyInt(i) == [py |-> "int", n |-> i, items |-> <<>>, text |-> <<>>]

PyStr(tokens) == [py |-> "str", n |-> 0, items |-> <<>>, text |-> tokens]

PyContainer(type, elts) == [py |-> type, n |-> 0, items |-> elts, text |-> <<>>]

----------------------------------------------------------------------------
(* Constants of the program *)

BASE_MODULE == "openerp.osv.orm"

BASE_FUNCTIONS == <<"create", "read", "write", "unlink", "search">>

\* A list without "user".
BASE_ARGS_cr_uid == <<"cr", "uid">>

BASE_ARGS == <<"cr", "uid", "user">>

Z2P_TYPES ==
    [boolean |-> "bool", integer |-> "int", integer_big |-> "int",
     reference |-> "Union[str, Literal[False]]", char |-> "str", float |-> "float",
     date |-> "str", datetime |-> "str", time |-> "str", binary |-> "str",
     selection |-> "str", many2one |-> "Tuple[int, Any]", one2many |-> "List[int]",
     many2many |-> "List[int]", serialized |-> "str", text |-> "str",
     string |-> "str", int |-> "int", url |-> "str"]

\* A test that finds no keyword.
iskeyword_never(name) == FALSE

\* keyword.iskeyword(name): keyword.kwlist of the language.
iskeyword(name) ==
    name \in {"False", "None", "True", "and", "as", "assert", "async", "await", "break",
              "class", "continue", "def", "del", "elif", "else", "except", "finally",
              "for", "from", "global", "if", "import", "in", "is", "lambda", "nonlocal",
              "not", "or", "pass", "raise", "return", "try", "while", "with", "yield"}

Range(s) == {s[i] : i \in DOMAIN s}

\* The entries of a sequence that satisfy keep, in order.
RECURSIVE select_from(_, _, _)
select_from(mapping, keep(_), i) ==
    IF i > Len(mapping) THEN <<>>
    ELSE (IF keep(mapping[i]) THEN <<mapping[i]>> ELSE <<>>) \o select_from(mapping, keep, i + 1)

----------------------------------------------------------------------------
(* Identifier derivation *)

replace_dot(identifier) ==
    [i \in DOMAIN identifier |-> IF identifier[i] = "." THEN "_" ELSE identifier[i]]

make_model_classname(identifier) == replace_dot(identifier)

make_read_model_classname(identifier) == replace_dot(identifier) \o <<"_", "record">>

make_fields_type_alias(record_name) == <<"fields", "_">> \o record_name

----------------------------------------------------------------------------
(* ast.parse and ast.literal_eval on a default string.                     *)
(* The tokens: the number 42, None, the name foo, ( ) { } and -.           *)
(* The grammar is the one of the language on these tokens:                 *)
(*   expr    ::= unary ( "-" unary )*                                      *)
(*   unary   ::= "-" unary | primary                                       *)
(*   primary ::= atom ( "(" [expr] ")" )*                                  *)
(*   atom    ::= 42 | None | foo | "(" ")" | "(" expr ")"                  *)
(*             | "{" "}" | "{" expr "}"                                    *)
(* A tree node is [op, kids]: Num, NoneConst, Name, Tuple, Dict, Set,      *)
(* Call (kids: the function, then the arguments), USub and BinOp.          *)

Tokens == {"42", "None", "foo", "(", ")", "{", "}", "-"}

Node(op, kids) == [op |-> op, kids |-> kids]

Parsed(tree, rest) == [ok |-> TRUE, tree |-> tree, rest |-> rest]

NoParse == [ok |-> FALSE, tree |-> Node("none", <<>>), rest |-> <<>>]

StartsWith(s, tok) == s # <<>> /\ Head(s) = tok

\* The rest of a parse: K of the tree and of the tokens left, or no parse.
AndThen(r, K(_, _)) == IF r.ok THEN K(r.tree, r.rest) ELSE NoParse

RECURSIVE parse_expr(_)
RECURSIVE parse_unary(_)
RECURSIVE parse_trailers(_, _)
RECURSIVE parse_subtractions(_, _)

\* "(" or "{" was consumed: the empty display, or one expression and the closing token.
parse_display(s, close, empty_op, wrap_op) ==
    IF StartsWith(s, close)
    THEN Parsed(Node(empty_op, <<>>), Tail(s))
    ELSE AndThen(parse_expr(s),
                 LAMBDA tree, rest :
                    IF StartsWith(rest, close)
                    THEN Parsed(IF wrap_op = "Paren" THEN tree ELSE Node(wrap_op, <<tree>>),
                                Tail(rest))
                    ELSE NoParse)

parse_atom(s) ==
    IF s = <<>> THEN NoParse
    ELSE CASE Head(s) = "42"   -> Parsed(Node("Num", <<>>), Tail(s))
           [] Head(s) = "None" -> Parsed(Node("NoneConst", <<>>), Tail(s))
           [] Head(s) = "foo"  -> Parsed(Node("Name", <<>>), Tail(s))
           [] Head(s) \in {"(", "{"} ->
                parse_display(Tail(s), IF Head(s) = "(" THEN ")" ELSE "}",
                              IF Head(s) = "(" THEN "Tuple" ELSE "Dict",
                              IF Head(s) = "(" THEN "Paren" ELSE "Set")
           [] OTHER            -> NoParse

\* The calls that follow a primary: f(), f(x), f()() ...
parse_trailers(func, s) ==
    IF ~StartsWith(s, "(") THEN Parsed(func, s)
    ELSE AndThen(IF StartsWith(Tail(s), ")")
                 THEN Parsed(Node("Call", <<func>>), Tail(s))
                 ELSE AndThen(parse_expr(Tail(s)),
                              LAMBDA tree, rest : Parsed(Node("Call", <<func, tree>>), rest)),
                 LAMBDA call_node, rest :
                    IF StartsWith(rest, ")") THEN parse_trailers(call_node, Tail(rest))
                    ELSE NoParse)

parse_primary(s) == AndThen(parse_atom(s), parse_trailers)

parse_unary(s) ==
    IF StartsWith(s, "-")
    THEN AndThen(parse_unary(Tail(s)), LAMBDA tree, rest : Parsed(Node("USub", <<tree>>), rest))
    ELSE parse_primary(s)

\* The subtractions that follow an operand: a - b - c ...
parse_subtractions(left, s) ==
    IF ~StartsWith(s, "-") THEN Parsed(left, s)
    ELSE AndThen(parse_unary(Tail(s)),
                 LAMBDA tree, rest : parse_subtractions(Node("BinOp", <<left, tree>>), rest))

parse_expr(s) == AndThen(parse_unary(s), parse_subtractions)

\* The whole source must be one expression.
whole_expression(r) == IF r.ok /\ r.rest = <<>> THEN Ok(r.tree) ELSE Raise("SyntaxError")

\* ast.parse(source, mode="eval"): the tree, or SyntaxError.
ast_parse(source) == whole_expression(parse_expr(source))

RECURSIVE hashable(_)
hashable(obj) ==
    CASE obj.py \in {"int", "NoneType", "str"} -> TRUE
      [] obj.py = "tuple" -> \A i \in DOMAIN obj.items : hashable(obj.items[i])
      [] OTHER -> FALSE

\* ast.literal_eval's _convert: the object a literal tree denotes; ValueError
\* ("malformed node or string") for a node that is no literal, TypeError for a
\* set display that holds an unhashable element.
RECURSIVE convert(_)
convert(node) ==
    CASE node.op = "Num" -> Ok(PyInt(42))
      [] node.op = "NoneConst" -> Ok(PyNone)
      [] node.op = "Tuple" -> Ok(PyContainer("tuple", <<>>))
      [] node.op = "Dict" -> Ok(PyContainer("dict", <<>>))
      [] node.op = "Set" ->
            Bind(convert(node.kids[1]),
                 LAMBDA elt : IF hashable(elt) THEN Ok(PyContainer("set", <<elt>>))
                                               ELSE Raise("TypeError"))
      [] node.op = "USub" ->
            IF node.kids[1].op = "Num" THEN Ok(PyInt(0 - 42)) ELSE Raise("ValueError")
      [] OTHER -> Raise("ValueError")

\* ast.literal_eval(node_or_string) for a string: parse, then convert.
literal_eval(source) == Bind(ast_parse(source), convert)

----------------------------------------------------------------------------
(* Declaration nodes *)

\* An annotation: none ("any"), the node parsed from a string of the table
\* (static), or a node computed from the model's name:
\*   List   List[<n>]            Name   <n>
\*   Domain List[Union[Literal[SET_OPERATIONS], Tuple[<n>, Literal[DOMAIN_OPERATORS], Any]]]
\*   Dict   Dict[<n>, Any]
Annotation(k, text, n) == [k |-> k, s |-> text, n |-> n]

NoAnnotation == Annotation("none", "", <<>>)

\* list_annotation(member_type)
list_annotation(member_type) == Annotation("List", "", member_type)

\* name(value)
name(value) == Annotation("Name", "", value)

\* argument(name, annotation): an ast.arg node
argument(arg_name, annotation) == [arg |-> arg_name, annotation |-> annotation]

\* constant(value): an ast.Constant node
constant(value) == [constant |-> value]

\* ellipsis_expression() and docstring(string): the statements of a body
ellipsis_expression == [stmt |-> "ellipsis", text |-> "", type |-> ""]

docstring(string) == [stmt |-> "docstring", text |-> string, type |-> ""]

\* arguments(args, defaults): an ast.arguments node
arguments(args, defaults) == [args |-> args, defaults |-> defaults]

\* function_definition(function_name, args, body, return_annotation, decorators)
function_definition(function_name, args, body, return_annotation, decorators) ==
    [name |-> function_name, args |-> args, body |-> body,
     returns |-> return_annotation, decorator_list |-> decorators]

----------------------------------------------------------------------------
(* The table of type hints of the base methods *)

\* A value of the table: a string, a node class, or None.
StrHint(text) == [hint |-> "str", text |-> text]

ClassHint(class) == [hint |-> "class", text |-> class]

NoneHint == [hint |-> "None", text |-> ""]

\* One dict of the table; has_overload says whether it has the key "overload".
HintDict(has_overload, overload, args, returns) ==
    [has_overload |-> has_overload, overload |-> overload, arguments |-> args, returns |-> returns]

BASE_TYPE_HINTS ==
    [read |->
        [is_list |-> TRUE,
         entries |-> <<
            HintDict(TRUE, TRUE,
                     [ids |-> StrHint("List[int]"),
                      context |-> StrHint("Optional[Dict[str, Any]]"),
                      load |-> StrHint("Optional[str]"),
                      fields |-> ClassHint("ReadFieldsNode")],
                     ClassHint("ReadReturnsRecordListNode")),
            HintDict(TRUE, TRUE,
                     [ids |-> StrHint("int"),
                      context |-> StrHint("Optional[Dict[str, Any]]"),
                      load |-> StrHint("Optional[str]"),
                      fields |-> ClassHint("ReadFieldsNode")],
                     ClassHint("ReadReturnsRecordNode")) >>],
     search |->
        [is_list |-> FALSE,
         entries |-> <<
            HintDict(FALSE, FALSE,
                     [args |-> ClassHint("SearchArgsNode"),
                      offset |-> StrHint("Optional[Union[int, Literal[False]]]"),
                      limit |-> StrHint("Optional[Union[int, Literal[False]]]"),
                      order |-> StrHint("Optional[Union[str, Literal[False]]]"),
                      context |-> StrHint("Optional[Dict[str, Any]]"),
                      count |-> StrHint("Optional[int]")],
                     StrHint("List[int]")) >>],
     write |->
        [is_list |-> FALSE,
         entries |-> <<
            HintDict(FALSE, FALSE,
                     [ids |-> StrHint("Union[int, List[int]]"),
                      vals |-> ClassHint("WriteValsNode"),
                      context |-> StrHint("Optional[Dict[str, Any]]")],
                     NoneHint) >>],
     unlink |->
        [is_list |-> FALSE,
         entries |-> <<
            HintDict(FALSE, FALSE,
                     [ids |-> StrHint("Union[int, List[int]]"),
                      context |-> StrHint("Optional[Dict[str, Any]]")],
                     NoneHint) >>]]

\* The name run() gives the base declaration's model.
BaseModelName == <<"BaseModel">>

\* <node class>.get(model_name, method_name, argument_name): the annotation it builds.
ReadFieldsNode(model_name) ==
    list_annotation(make_fields_type_alias(make_read_model_classname(model_name)))

ReadReturnsRecordListNode(model_name) == list_annotation(make_read_model_classname(model_name))

ReadReturnsRecordNode(model_name) == name(make_read_model_classname(model_name))

SearchArgsNode(model_name) ==
    Annotation("Domain", "", make_fields_type_alias(make_read_model_classname(model_name)))

WriteValsNode(model_name) ==
    Annotation("Dict", "", make_fields_type_alias(make_read_model_classname(model_name)))

node_class_get(class, model_name) ==
    CASE class = "ReadFieldsNode" -> ReadFieldsNode(model_name)
      [] class = "ReadReturnsRecordListNode" -> ReadReturnsRecordListNode(model_name)
      [] class = "ReadReturnsRecordNode" -> ReadReturnsRecordNode(model_name)
      [] class = "SearchArgsNode" -> SearchArgsNode(model_name)
      [] class = "WriteValsNode" -> WriteValsNode(model_name)

\* get_base_type_hint_node(value, argument_name) and construct_ast_node_from_string(value):
\* the node that the string of the table parses to.
construct_ast_node_from_string(value) == Annotation("static", value, <<>>)

get_base_type_hint_node(value, argument_name) ==
    argument(argument_name, construct_ast_node_from_string(value))

\* BASE_TYPE_HINTS[method_name][overload_position], or BASE_TYPE_HINTS[method_name]
\* when no position is given, as the subscripts of the language evaluate it:
\* the dict, or KeyError (no such method; an integer key of a dict), TypeError
\* (a string key of a list) or IndexError (a position past the list's end).
hint_dict(method_name, overload_position) ==
    IF method_name \notin DOMAIN BASE_TYPE_HINTS THEN Raise("KeyError")
    ELSE LET hints == BASE_TYPE_HINTS[method_name]
         IN  IF overload_position # None_position
             THEN IF ~hints.is_list THEN Raise("KeyError")
                  ELSE IF overload_position >= Len(hints.entries) THEN Raise("IndexError")
                  ELSE Ok(hints.entries[overload_position + 1])
             ELSE IF hints.is_list THEN Raise("TypeError")
                  ELSE Ok(hints.entries[1])

\* ...["arguments"][arg_name]
hint_of_argument(method_name, overload_position, arg_name) ==
    Bind(hint_dict(method_name, overload_position),
         LAMBDA d : IF arg_name \in DOMAIN d.arguments THEN Ok(d.arguments[arg_name])
                                                       ELSE Raise("KeyError"))

\* The node for the value looked up: the branches of get_argument_annotation_node.
argument_node(val, model_name, arg_name) ==
    IF val.hint = "class" /\ arg_name # ""
    THEN Ok(argument(arg_name, node_class_get(val.text, model_name)))
    ELSE IF val.hint = "str" /\ arg_name # ""
    THEN Ok(get_base_type_hint_node(val.text, arg_name))
    ELSE IF arg_name # ""
    THEN Ok(argument(arg_name, NoAnnotation))
    ELSE Raise("TypeError")

get_argument_annotation_node(model_name, method_name, arg_name, overload_position) ==
    Bind(Except(hint_of_argument(method_name, overload_position, arg_name),
                {"KeyError"}, Ok(NoneHint)),
         LAMBDA val : argument_node(IF model_name = BaseModelName THEN NoneHint ELSE val,
                                    model_name, arg_name))

\* ...["returns"]
hint_of_return(method_name, overload_position) ==
    Bind(hint_dict(method_name, overload_position), LAMBDA d : Ok(d.returns))

\* The node for the value looked up: the branches of get_return_annotation_node.
return_node(val, model_name) ==
    IF val.hint = "None" THEN Ok(NoAnnotation)
    ELSE IF val.hint = "class" THEN Ok(node_class_get(val.text, model_name))
    ELSE IF val.hint = "str" THEN Ok(construct_ast_node_from_string(val.text))
    ELSE Raise("TypeError")

\* Only the lookup without a position is in a try; its KeyError returns None.
get_return_annotation_node(model_name, method_name, overload_position) ==
    IF model_name = BaseModelName THEN Ok(NoAnnotation)
    ELSE Bind(Except(hint_of_return(method_name, overload_position),
                     IF overload_position = None_position THEN {"KeyError"} ELSE {},
                     Ok(NoneHint)),
              LAMBDA val : return_node(val, model_name))

----------------------------------------------------------------------------
(* Model metadata.                                                         *)
(*   an argument  [name, has_default, default]   default: a token string   *)
(*   a doc        [key, is_list, entries]        key: the method has "doc" *)
(*   a method     [module, args, doc]                                      *)
(*   methods      an ordered mapping: a sequence of [name, meta]           *)
(*   fields       an ordered mapping: a sequence of [name, type]           *)
(*   a model      [kind, fields, methods]; kind is "None" (null), "empty"  *)
(*                ({}) or "dict"                                           *)

Arg(arg_name, has_default, default) ==
    [name |-> arg_name, has_default |-> has_default, default |-> default]

Doc(key, is_list, entries) == [key |-> key, is_list |-> is_list, entries |-> entries]

Method(module, args, doc) == [module |-> module, args |-> args, doc |-> doc]

Metadata(fields, methods) == [kind |-> "dict", fields |-> fields, methods |-> methods]

NoneMetadata == [kind |-> "None", fields |-> <<>>, methods |-> <<>>]

EmptyMetadata == [kind |-> "empty", fields |-> <<>>, methods |-> <<>>]

\* bool(metadata): None and {} are false.
truthy(metadata) == metadata.kind = "dict"

----------------------------------------------------------------------------
(* ModelMetadataToASTHandler *)

infer_default(arg) ==
    IF ~arg.has_default THEN Ok(PyNone)
    ELSE Except(literal_eval(arg.default), {"SyntaxError"}, Ok(PyStr(arg.default)))

\* parse_default(arg), local to function_arguments
parse_default(arg) == Bind(infer_default(arg), LAMBDA default : Ok(constant(default)))

\* The loop of function_arguments from argument i on.
RECURSIVE function_arguments_from(_, _, _, _, _, _, _)
function_arguments_from(args, i, arg_nodes, default_nodes, model_name, method_name, overload_position) ==
    IF i > Len(args) THEN Ok(arguments(arg_nodes, default_nodes))
    ELSE Bind(
        IF args[i].name \in Range(BASE_ARGS) THEN Ok([args |-> arg_nodes, defaults |-> default_nodes])
        ELSE Bind(
            IF args[i].has_default
            THEN Bind(parse_default(args[i]), LAMBDA default : Ok(Append(default_nodes, default)))
            ELSE Ok(default_nodes),
            LAMBDA defaults :
                Bind(get_argument_annotation_node(model_name, method_name, args[i].name,
                                                  overload_position),
                     LAMBDA node : Ok([args |-> Append(arg_nodes, node), defaults |-> defaults]))),
        LAMBDA lists :
            function_arguments_from(args, i + 1, lists.args, lists.defaults,
                                    model_name, method_name, overload_position))

function_arguments(method_metadata, model_name, method_name, overload_position) ==
    function_arguments_from(method_metadata.args, 1, <<>>, <<>>,
                            model_name, method_name, overload_position)

\* A docstring from the last entry of the inheritance chain.
Handler_docstring_of_last(method_metadata) ==
    IF ~method_metadata.doc.key THEN Raise("KeyError")
    ELSE IF ~(method_metadata.doc.entries # <<>> /\ method_metadata.doc.is_list) THEN Ok(<<>>)
    ELSE Ok(<<docstring(method_metadata.doc.entries[Len(method_metadata.doc.entries)])>>)

\* ModelMetadataToASTHandler.docstring: the docstring node, or None (<<>> here).
Handler_docstring(method_metadata) ==
    IF ~method_metadata.doc.key THEN Raise("KeyError")
    ELSE IF ~(method_metadata.doc.entries # <<>> /\ method_metadata.doc.is_list) THEN Ok(<<>>)
    ELSE Ok(<<docstring(method_metadata.doc.entries[1])>>)

\* BASE_TYPE_HINTS[method_name][overload_position]["overload"]
hint_of_overload(method_name, overload_position) ==
    Bind(hint_dict(method_name, overload_position),
         LAMBDA d : IF d.has_overload THEN Ok(d.overload) ELSE Raise("KeyError"))

\* ModelMetadataToASTHandler.overload: the decorator list, or None (<<>> here).
overload(model_name, method_metadata, method_name, overload_position) ==
    Bind(Except(hint_of_overload(method_name, overload_position),
                {"KeyError", "TypeError"}, Ok(FALSE)),
         LAMBDA overloaded : Ok(IF overloaded THEN <<"overload">> ELSE <<>>))

\* ModelMetadataToASTHandler.function_definition
Handler_function_definition(model_name, method_metadata, method_name, overload_position) ==
    Bind(function_arguments(method_metadata, model_name, method_name, overload_position),
         LAMBDA args_node :
    Bind(Handler_docstring(method_metadata),
         LAMBDA docstring_node :
    Bind(get_return_annotation_node(model_name, method_name, overload_position),
         LAMBDA returns :
    Bind(overload(model_name, method_metadata, method_name, overload_position),
         LAMBDA decorator :
            Ok(function_definition(method_name, args_node,
                                   docstring_node \o <<ellipsis_expression>>,
                                   returns, decorator))))))

\* The positions of a range that stops before the last entry.
overload_positions_but_last(method_name) ==
    IF method_name \notin DOMAIN BASE_TYPE_HINTS THEN <<None_position>>
    ELSE IF BASE_TYPE_HINTS[method_name].is_list
         THEN [i \in 1..(Len(BASE_TYPE_HINTS[method_name].entries) - 1) |-> i - 1]
         ELSE <<None_position>>

\* The positions of a range taken from its end.
overload_positions_reversed(method_name) ==
    IF method_name \notin DOMAIN BASE_TYPE_HINTS THEN <<None_position>>
    ELSE IF BASE_TYPE_HINTS[method_name].is_list
         THEN [i \in 1..Len(BASE_TYPE_HINTS[method_name].entries) |->
                  Len(BASE_TYPE_HINTS[method_name].entries) - i]
         ELSE <<None_position>>

\* The overload positions build_function calls function_definition with: one for
\* each entry of a list of the table, in order; no position for any other method.
overload_positions(method_name) ==
    IF method_name \notin DOMAIN BASE_TYPE_HINTS THEN <<None_position>>
    ELSE IF BASE_TYPE_HINTS[method_name].is_list
         THEN [i \in 1..Len(BASE_TYPE_HINTS[method_name].entries) |-> i - 1]
         ELSE <<None_position>>

\* The definitions of build_function from the i-th of these positions on.
RECURSIVE definitions_from(_, _, _, _, _, _)
definitions_from(model_name, method_metadata, method_name, positions, i, definitions) ==
    IF i > Len(positions) THEN Ok(definitions)
    ELSE Bind(Handler_function_definition(model_name, method_metadata, method_name, positions[i]),
              LAMBDA definition :
                 definitions_from(model_name, method_metadata, method_name, positions, i + 1,
                                  Append(definitions, definition)))

build_function(model_name, method_metadata, method_name) ==
    definitions_from(model_name, method_metadata, method_name,
                     overload_positions(method_name), 1, <<>>)

\* variable_annotation(variable_name, type): an ast.AnnAssign statement
variable_annotation(variable_name, type) == [stmt |-> "annotation", text |-> variable_name, type |-> type]

RECURSIVE field_annotations_from(_, _, _)
field_annotations_from(field_metadata, i, annotation_nodes) ==
    IF i > Len(field_metadata) THEN Ok(annotation_nodes)
    ELSE LET field == field_metadata[i]
         IN  IF iskeyword(field.name)
             THEN field_annotations_from(field_metadata, i + 1, annotation_nodes)
             ELSE IF field.type \notin DOMAIN Z2P_TYPES THEN Raise("KeyError")
             ELSE field_annotations_from(
                      field_metadata, i + 1,
                      Append(annotation_nodes, variable_annotation(field.name, Z2P_TYPES[field.type])))

\* Annotations that give Any to a field type that Z2P_TYPES does not have.
field_annotations_or_any(field_metadata) ==
    Ok([i \in DOMAIN select_from(field_metadata, LAMBDA f : ~iskeyword(f.name), 1) |->
          variable_annotation(
              select_from(field_metadata, LAMBDA f : ~iskeyword(f.name), 1)[i].name,
              IF select_from(field_metadata, LAMBDA f : ~iskeyword(f.name), 1)[i].type
                   \in DOMAIN Z2P_TYPES
              THEN Z2P_TYPES[select_from(field_metadata, LAMBDA f : ~iskeyword(f.name), 1)[i].type]
              ELSE "Any")])

field_annotations(field_metadata) == field_annotations_from(field_metadata, 1, <<>>)

----------------------------------------------------------------------------
(* The generators: Model and its subclasses *)

\* class_definition(class_name, base_classes, body): an ast.ClassDef node
class_definition(class_name, base_classes, body) ==
    [name |-> class_name, bases |-> base_classes, body |-> body]

\* create_import(names, from_module, level)
create_import(names, from_module) == [names |-> names, from_module |-> from_module]

\* literal(variable_name, arguments): <fields alias> = Literal[<arguments>]
literal(variable_name, literal_arguments) ==
    [target |-> make_fields_type_alias(variable_name),
     elts |-> [i \in DOMAIN literal_arguments |-> constant(literal_arguments[i])]]

\* The keys that are no keywords.
field_keys_not_keywords(fields) ==
    [i \in DOMAIN select_from(fields, LAMBDA f : ~iskeyword(f.name), 1) |->
        PyStr(<<select_from(fields, LAMBDA f : ~iskeyword(f.name), 1)[i].name>>)]

\* fields.keys(): the keys as string objects
field_keys(fields) == [i \in DOMAIN fields |-> PyStr(<<fields[i].name>>)]

\* A generation with no placeholder: the body and the Literal are what the fields give.
RecordModel_generate_ast_of_fields(model_name, metadata) ==
    Bind(field_annotations(metadata.fields),
         LAMBDA annotation_nodes :
            Ok([module |-> "RecordModel",
                fields_definition |->
                    literal(make_read_model_classname(model_name), field_keys(metadata.fields)),
                class_node |-> class_definition(make_read_model_classname(model_name),
                                                <<<<"TypedDict">>>>, annotation_nodes)]))

\* RecordModel.generate_ast
RecordModel_generate_ast(model_name, metadata) ==
    Bind(IF metadata.fields # <<>> THEN field_annotations(metadata.fields)
                                   ELSE Ok(<<ellipsis_expression>>),
         LAMBDA annotation_nodes :
            Ok([module |-> "RecordModel",
                fields_definition |->
                    literal(make_read_model_classname(model_name),
                            IF metadata.fields # <<>> THEN field_keys(metadata.fields)
                                                      ELSE <<PyNone>>),
                class_node |-> class_definition(make_read_model_classname(model_name),
                                                <<<<"TypedDict">>>>, annotation_nodes)]))

\* A test that looks at the name alone.
table_skips_every_module(method, method_metadata) == method \notin Range(BASE_FUNCTIONS)

\* if method_metadata["module"] == BASE_MODULE and method not in BASE_FUNCTIONS: continue
table_skips(method, method_metadata) ==
    method_metadata.module = BASE_MODULE /\ method \notin Range(BASE_FUNCTIONS)

\* The loop of TableModel.generate_ast from method i on.
RECURSIVE table_body_from(_, _, _, _)
table_body_from(model_name, methods, i, body_nodes) ==
    IF i > Len(methods) THEN Ok(body_nodes)
    ELSE Bind(IF table_skips(methods[i].name, methods[i].meta)
              THEN Ok(<<>>)
              ELSE build_function(model_name, methods[i].meta, methods[i].name),
              LAMBDA function_nodes :
                 table_body_from(model_name, methods, i + 1, body_nodes \o function_nodes))

\* TableModel.generate_ast: the tree, or None (<<>> here) for a model without methods.
TableModel_generate_ast(model_name, metadata) ==
    IF metadata.methods = <<>> THEN Ok(<<>>)
    ELSE Bind(table_body_from(model_name, metadata.methods, 1, <<>>),
              LAMBDA body_nodes :
                 Ok([module |-> "TableModel",
                     imports |->
                        <<create_import(
                              <<make_read_model_classname(model_name),
                                make_fields_type_alias(make_read_model_classname(model_name))>>,
                              make_read_model_classname(model_name)),
                          create_import(<<BaseModelName>>, <<"base">>)>>,
                     class_node |-> class_definition(make_model_classname(model_name),
                                                     <<BaseModelName>>, body_nodes)]))

\* The loop of BaseModel.generate_ast from method i on.
RECURSIVE base_body_from(_, _, _, _)
base_body_from(model_name, methods, i, function_nodes) ==
    IF i > Len(methods) THEN Ok(function_nodes)
    ELSE Bind(IF methods[i].meta.module # BASE_MODULE
              THEN Ok(<<>>)
              ELSE Bind(Handler_function_definition(model_name, methods[i].meta,
                                                    methods[i].name, None_position),
                        LAMBDA function_node : Ok(<<function_node>>)),
              LAMBDA nodes : base_body_from(model_name, methods, i + 1, function_nodes \o nodes))

\* BaseModel.generate_ast; metadata["methods"] raises for None (TypeError) and {} (KeyError).
BaseModel_generate_ast(model_name, metadata) ==
    IF metadata.kind = "None" THEN Raise("TypeError")
    ELSE IF metadata.kind = "empty" THEN Raise("KeyError")
    ELSE Bind(base_body_from(model_name, metadata.methods, 1, <<>>),
              LAMBDA function_nodes :
                 Ok([module |-> "BaseModel",
                     class_node |-> class_definition(model_name, <<>>, function_nodes)]))

\* The keys of a mapping given as a sequence of [name, meta].
keys_of(mapping) == [i \in DOMAIN mapping |-> mapping[i].name]

\* {t: make_model_classname(t) for t in <entries>}
class_names_of(entries) ==
    [i \in DOMAIN entries |->
        [key |-> entries[i].name, value |-> make_model_classname(entries[i].name)]]

\* The comprehension without its condition.
table_to_model_names_of_all(metadata) == class_names_of(metadata)

\* {t: make_model_classname(t) for t in self.model_metadata if self.model_metadata[t]}
table_to_model_names(metadata) ==
    class_names_of(select_from(metadata, LAMBDA e : truthy(e.meta), 1))

\* The module TypedZERPModel.generate_ast builds from table_to_model_names: the
\* imports of the classes and TypedZERP = TypedDict("TypedZERP", {<key>: <class>, ...}).
registry_module(names) ==
    Ok([module |-> "TypedZERPModel",
        imports |-> [i \in DOMAIN names |-> create_import(<<names[i].value>>, names[i].value)],
        keys |-> [i \in DOMAIN names |-> names[i].key],
        values |-> [i \in DOMAIN names |-> names[i].value]])

\* TypedZERPModel.generate_ast
TypedZERPModel_generate_ast(model_name, metadata) ==
    registry_module(table_to_model_names(metadata))

\* <subclass>.generate_ast
generate_ast(type_model, model_name, metadata) ==
    CASE type_model = "RecordModel" -> RecordModel_generate_ast(model_name, metadata)
      [] type_model = "TableModel" -> TableModel_generate_ast(model_name, metadata)
      [] type_model = "BaseModel" -> BaseModel_generate_ast(model_name, metadata)
      [] type_model = "TypedZERPModel" -> TypedZERPModel_generate_ast(model_name, metadata)

\* The path <subclass>.write gives write_model, relative to MODEL_DIRECTORY.
write_path(type_model, model_name) ==
    CASE type_model = "RecordModel" -> make_read_model_classname(model_name) \o <<".py">>
      [] type_model = "TableModel" -> make_model_classname(model_name) \o <<".py">>
      [] type_model = "BaseModel" -> <<"base", ".py">>
      [] type_model = "TypedZERPModel" -> <<"zerp", ".py">>

\* An entry of the log of the run: a create called, a file written, an exception
\* raised by a create, or a mark of the handler.
Event(ev, type_model, model_name, path, exception) ==
    [ev |-> ev, type_model |-> type_model, model |-> model_name, path |-> path,
     exception |-> exception]

\* write_model(tree, path): the file is written, or open/write raises OSError;
\* open(path, "wb") raises FileNotFoundError when MODEL_DIRECTORY does not exist.
write_model(tree, path, disk_ok) ==
    IF ~directory_exists THEN [raised |-> "FileNotFoundError", written |-> <<>>]
    ELSE IF disk_ok THEN [raised |-> "none", written |-> <<[path |-> path, tree |-> tree]>>]
               ELSE [raised |-> "OSError", written |-> <<>>]

\* Model.create from the result of generate_ast on: the exception raised, the tree
\* generated (<<>> when none) and the file written, if any.
create_from(tree, path, disk_ok) ==
    IF ~IsOk(tree) THEN [raised |-> tree.raised, tree |-> <<>>, written |-> <<>>]
    ELSE IF tree.value = <<>> THEN [raised |-> "none", tree |-> <<>>, written |-> <<>>]
    ELSE [raised |-> write_model(tree.value, path, disk_ok).raised,
          tree |-> tree.value,
          written |-> write_model(tree.value, path, disk_ok).written]

\* type_model(model_name, metadata).create()
Model_create(type_model, model_name, metadata, disk_ok) ==
    create_from(generate_ast(type_model, model_name, metadata),
                write_path(type_model, model_name), disk_ok)

\* The output directory after these writes, in order.
RECURSIVE files_after(_, _)
files_after(fs, written) ==
    IF written = <<>> THEN fs
    ELSE files_after([p \in DOMAIN fs \cup {Head(written).path} |->
                         IF p = Head(written).path THEN Head(written).tree ELSE fs[p]],
                     Tail(written))

\* The events of one create: the call, then the write if one was made, or the
\* exception if one was raised.
events_of(type_model, model_name, created) ==
    <<Event("create", type_model, model_name, <<>>, "none")>>
    \o (IF created.written = <<>> THEN <<>>
        ELSE <<Event("write", type_model, model_name, created.written[1].path, "none")>>)
    \o (IF created.raised = "none" THEN <<>>
        ELSE <<Event("raise", type_model, model_name, <<>>, created.raised)>>)

----------------------------------------------------------------------------
(* DisplayHandler: the handler is [progress, successes] *)

\* ModelProgress(total=total)
ModelProgress(total) == [success |-> 0, ignored |-> 0, errors |-> 0, total |-> total]

\* DisplayHandler.__init__
DisplayHandler(total) == [progress |-> ModelProgress(total), successes |-> <<>>]

DisplayHandler_success(handler, model_name) ==
    [progress |-> [handler.progress EXCEPT !.success = @ + 1],
     successes |-> Append(handler.successes, model_name)]

DisplayHandler_ignore(handler, model_name) ==
    DisplayHandler_success([handler EXCEPT !.progress.ignored = @ + 1], model_name)

\* An error mark that goes on to self.success(model_name), as ignore does.
DisplayHandler_error_then_success(handler, model_name) ==
    DisplayHandler_success([handler EXCEPT !.progress.errors = @ + 1], model_name)

DisplayHandler_error(handler, model_name) ==
    [handler EXCEPT !.progress.errors = @ + 1]

\* An __exit__ that prints only when the block ended without an exception.
DisplayHandler_exit_if_completed(handler, out, exc_type) ==
    IF exc_type = "none" THEN Append(out, handler.progress) ELSE out

\* DisplayHandler.__exit__(exc_type, exc_value, traceback): the summary it prints,
\* whatever ended the block.
DisplayHandler_exit(handler, out, exc_type) == Append(out, handler.progress)

----------------------------------------------------------------------------
(* The catalogs that are explored *)

IrModel == <<"ir", ".", "model">>

\* The identifiers of the service: res.partner and res_partner are two of them.
NamePool == <<IrModel, <<"res", ".", "partner">>, <<"res", "_", "partner">>,
              <<"sale", ".", "order">>, <<"account", ".", "move">>>>

NoDoc == Doc(TRUE, FALSE, <<>>)

read_method ==
    Method(BASE_MODULE,
           <<Arg("cr", FALSE, <<>>), Arg("uid", FALSE, <<>>), Arg("ids", FALSE, <<>>),
             Arg("fields", TRUE, <<"None">>), Arg("context", TRUE, <<"None">>)>>,
           Doc(TRUE, TRUE, <<"Read the records.", "Overridden read.">>))

write_method ==
    Method(BASE_MODULE,
           <<Arg("cr", FALSE, <<>>), Arg("user", FALSE, <<>>), Arg("ids", FALSE, <<>>),
             Arg("vals", FALSE, <<>>), Arg("context", TRUE, <<"None">>)>>,
           NoDoc)

search_method ==
    Method(BASE_MODULE,
           <<Arg("cr", FALSE, <<>>), Arg("user", FALSE, <<>>), Arg("args", FALSE, <<>>),
             Arg("offset", TRUE, <<"42">>), Arg("limit", TRUE, <<"None">>)>>,
           Doc(TRUE, TRUE, <<"Search the records.">>))

\* A base-module method outside BASE_FUNCTIONS.
copy_method == Method(BASE_MODULE, <<Arg("cr", FALSE, <<>>), Arg("id", FALSE, <<>>)>>, NoDoc)

\* A method of another module, with a default that is no Python expression.
onchange_method ==
    Method("partner.module",
           <<Arg("cr", FALSE, <<>>), Arg("ids", FALSE, <<>>), Arg("value", TRUE, <<"{", "foo">>)>>,
           NoDoc)

\* A method of another module, with a default that is a name.
compute_method ==
    Method("sale.module", <<Arg("rate", TRUE, <<"foo">>)>>, NoDoc)

Method_entry(method_name, meta) == [name |-> method_name, meta |-> meta]

Field(field_name, type) == [name |-> field_name, type |-> type]

\* read and write of the base module, a filtered base method and a method of its own.
PartnerMetadata ==
    Metadata(<<Field("name", "char"), Field("parent_id", "many2one")>>,
             <<Method_entry("read", read_method), Method_entry("write", write_method),
               Method_entry("copy", copy_method), Method_entry("onchange", onchange_method)>>)

\* No read among its methods, and a field kind outside Z2P_TYPES on a key that is
\* a keyword.
PlainMetadata ==
    Metadata(<<Field("name", "char"), Field("global", "json")>>,
             <<Method_entry("search", search_method), Method_entry("onchange", onchange_method)>>)

\* {"fields": {}, "methods": {}}
NoMethodsMetadata == Metadata(<<>>, <<>>)

\* A field kind outside Z2P_TYPES.
UnknownKindMetadata ==
    Metadata(<<Field("name", "char"), Field("payload", "json")>>,
             <<Method_entry("search", search_method)>>)

\* No fields, and a default that is a name.
BadDefaultMetadata == Metadata(<<>>, <<Method_entry("compute", compute_method)>>)

MetadataPool ==
    {NoneMetadata, EmptyMetadata, PartnerMetadata, PlainMetadata, NoMethodsMetadata,
     UnknownKindMetadata, BadDefaultMetadata}

Entry(model_name, meta) == [name |-> model_name, meta |-> meta]

\* The keys of a catalog of n models with ir.model at position k: the other
\* models are named from the pool, in its order.
catalog_key(i, k) == IF i = k THEN IrModel ELSE NamePool[IF i < k THEN i + 1 ELSE i]

\* A decoded JSON object: its keys are distinct. The service always has ir.model,
\* here as its first or its last key.
Catalogs ==
    UNION {{[i \in 1..n |-> Entry(catalog_key(i, k), metadata[i])] :
               k \in {1, n}, metadata \in [1..n -> MetadataPool]} :
           n \in 1..(IF MaxModels < Len(NamePool) THEN MaxModels ELSE Len(NamePool))}

\* mapping[key]
lookup(mapping, key) ==
    IF \E i \in DOMAIN mapping : mapping[i].name = key
    THEN Ok(mapping[CHOOSE i \in DOMAIN mapping : mapping[i].name = key].meta)
    ELSE Raise("KeyError")

----------------------------------------------------------------------------
(* run(fail_on_error) *)

NotBuilt == <<>>

\* run() and the functions of generate_types.py use no connection but the one
\* fetch: the state of the proxy and of the prompt is not theirs.
NoConnection ==
    /\ wamp_calls = <<>>
    /\ has_decodestring = FALSE
    /\ uri_base = <<>>
    /\ uri_base_bkp = <<>>
    /\ full_uri = <<>>
    /\ sub_metadata = <<>>

NoCall == [fn |-> "run"]

Init ==
    /\ pc = "start"
    /\ fail_on_error \in BOOLEAN
    /\ remote \in Catalogs
    /\ model_metadata = <<>>
    /\ position = 0
    /\ progress = ModelProgress(0)
    /\ successes = <<>>
    /\ directory_exists \in BOOLEAN
    /\ files = <<>>
    /\ events = <<>>
    /\ stdout = <<>>
    /\ registry = NotBuilt
    /\ exc = "none"
    /\ call = NoCall
    /\ ret = <<>>
    /\ NoConnection

\* model_metadata = get_all_model_metadata(): the catalog, or the failure of the
\* remote call or of the decoding.
Fetch ==
    /\ pc = "start"
    /\ \E fetched \in BOOLEAN :
        IF fetched
        THEN /\ model_metadata' = remote
             /\ pc' = "base"
             /\ exc' = exc
        ELSE /\ model_metadata' = model_metadata
             /\ pc' = "raised"
             /\ exc' = "MetadataFetchError"
    /\ UNCHANGED <<fail_on_error, remote, position, progress, successes, directory_exists,
                   files, events, stdout, registry, call, ret, proxyVars, cliVars>>

\* The step of run() that creates the base model, from the outcome of the
\* create on; called says whether model_metadata["ir.model"] was found.
BaseCreated(created, called) ==
    /\ pc' = IF created.raised = "none" THEN "loop" ELSE "raised"
    /\ exc' = created.raised
    /\ events' = IF called THEN events \o events_of("BaseModel", BaseModelName, created)
                           ELSE events
    /\ files' = files_after(files, created.written)
    /\ progress' = IF created.raised = "none"
                   THEN DisplayHandler(Len(model_metadata)).progress ELSE progress
    /\ successes' = IF created.raised = "none"
                    THEN DisplayHandler(Len(model_metadata)).successes ELSE successes

\* BaseModel("BaseModel", model_metadata["ir.model"]).create(), then DisplayHandler(len(model_metadata)).
CreateBase ==
    /\ pc = "base"
    /\ \E disk_ok \in BOOLEAN :
        BaseCreated(
            IF IsOk(lookup(model_metadata, IrModel))
            THEN Model_create("BaseModel", BaseModelName,
                              lookup(model_metadata, IrModel).value, disk_ok)
            ELSE [raised |-> "KeyError", tree |-> <<>>, written |-> <<>>],
            IsOk(lookup(model_metadata, IrModel)))
    /\ UNCHANGED <<fail_on_error, remote, model_metadata, position, directory_exists, stdout,
                   registry, call, ret, proxyVars, cliVars>>

\* The two creates in the other order: the table, then the record.
creates_table_first(model_name, record, table) ==
    [raised |-> IF table.raised # "none" THEN table.raised ELSE record.raised,
     events |-> events_of("TableModel", model_name, table)
                \o (IF table.raised = "none"
                    THEN events_of("RecordModel", model_name, record) ELSE <<>>),
     written |-> table.written \o (IF table.raised = "none" THEN record.written ELSE <<>>)]

\* for type_model in [RecordModel, TableModel]: type_model(model_name, metadata).create()
\* from the outcomes of the two creates: the second is made only after the first
\* returned.
creates(model_name, record, table) ==
    [raised |-> IF record.raised # "none" THEN record.raised ELSE table.raised,
     events |-> events_of("RecordModel", model_name, record)
                \o (IF record.raised = "none"
                    THEN events_of("TableModel", model_name, table) ELSE <<>>),
     written |-> record.written \o (IF record.raised = "none" THEN table.written ELSE <<>>)]

\* The handler after the body of one iteration that did not leave the loop.
handler_after(handler, model_name, metadata, raised) ==
    IF ~truthy(metadata) THEN DisplayHandler_ignore(handler, model_name)
    ELSE IF raised # "none" THEN DisplayHandler_error(handler, model_name)
    ELSE DisplayHandler_success(handler, model_name)

\* An except clause that never raises again.
reraises_never(raised) == FALSE

\* An except clause that raises again whatever fail_on_error is.
reraises_always(raised) == raised # "none"

\* except: if fail_on_error: raise
reraises(raised) == raised # "none" /\ fail_on_error

\* The body of the loop for (model_name, metadata), given the outcome of the try.
Iteration(model_name, metadata, tried) ==
    IF ~truthy(metadata)
    THEN /\ progress' = DisplayHandler_ignore([progress |-> progress, successes |-> successes],
                                              model_name).progress
         /\ successes' = DisplayHandler_ignore([progress |-> progress, successes |-> successes],
                                               model_name).successes
         /\ events' = Append(events, Event("ignore", "", model_name, <<>>, "none"))
         /\ position' = position + 1
         /\ UNCHANGED <<pc, exc, files, stdout>>
    ELSE IF reraises(tried.raised)
    THEN /\ pc' = "raised"
         /\ exc' = tried.raised
         /\ events' = events \o tried.events
         /\ files' = files_after(files, tried.written)
         /\ stdout' = DisplayHandler_exit([progress |-> progress, successes |-> successes],
                                          stdout, tried.raised)
         /\ UNCHANGED <<progress, successes, position>>
    ELSE /\ progress' = handler_after([progress |-> progress, successes |-> successes],
                                      model_name, metadata, tried.raised).progress
         /\ successes' = handler_after([progress |-> progress, successes |-> successes],
                                       model_name, metadata, tried.raised).successes
         /\ events' = (events \o tried.events)
                      \o <<Event(IF tried.raised # "none" THEN "error" ELSE "success",
                                 "", model_name, <<>>, "none")>>
         /\ files' = files_after(files, tried.written)
         /\ position' = position + 1
         /\ UNCHANGED <<pc, exc, stdout>>

\* One iteration of the loop over model_metadata.items().
LoopBody ==
    /\ pc = "loop"
    /\ position < Len(model_metadata)
    /\ \E record_disk_ok, table_disk_ok \in BOOLEAN :
        Iteration(model_metadata[position + 1].name, model_metadata[position + 1].meta,
                  creates(model_metadata[position + 1].name,
                          Model_create("RecordModel", model_metadata[position + 1].name,
                                       model_metadata[position + 1].meta, record_disk_ok),
                          Model_create("TableModel", model_metadata[position + 1].name,
                                       model_metadata[position + 1].meta, table_disk_ok)))
    /\ UNCHANGED <<fail_on_error, remote, model_metadata, directory_exists, registry, call, ret,
                   proxyVars, cliVars>>

\* {model: model_metadata[model] for model in handler.successes}
filtered_model_metadata(metadata, names) ==
    [i \in DOMAIN names |-> Entry(names[i], lookup(metadata, names[i]).value)]

\* The end of run(), from the outcome of the create of the registry on: the with
\* block ends, by return or by the exception.
RegistryCreated(created) ==
    /\ registry' = created.tree
    /\ events' = events \o events_of("TypedZERPModel", <<"TypedZERPModel">>, created)
    /\ files' = files_after(files, created.written)
    /\ stdout' = DisplayHandler_exit([progress |-> progress, successes |-> successes],
                                     stdout, created.raised)
    /\ pc' = IF created.raised = "none" THEN "done" ELSE "raised"
    /\ exc' = created.raised

\* After the loop: TypedZERPModel("TypedZERPModel", filtered_model_metadata).create(),
\* then the end of the with block.
CreateRegistry ==
    /\ pc = "loop"
    /\ position = Len(model_metadata)
    /\ \E disk_ok \in BOOLEAN :
        RegistryCreated(Model_create("TypedZERPModel", <<"TypedZERPModel">>,
                                     filtered_model_metadata(model_metadata, successes), disk_ok))
    /\ UNCHANGED <<fail_on_error, remote, model_metadata, position, progress, successes,
                   directory_exists, call, ret, proxyVars, cliVars>>

Next == Fetch \/ CreateBase \/ LoopBody \/ CreateRegistry

Spec == Init /\ [][Next]_vars

----------------------------------------------------------------------------
(* Calls of single functions: call is the function and its arguments, ret what
   it returned or raised. *)

\* The default strings of at most MaxDefaultLen tokens.
DefaultStrings == UNION {[1..n -> Tokens] : n \in 0..MaxDefaultLen}

MethodNames == {"read", "search", "write", "unlink", "create", "copy"}

ArgNames == {"ids", "fields", "args", "vals", "context", "value", ""}

Positions == {None_position, 0, 1, 2}

ModelNames == {BaseModelName, IrModel, NamePool[2]}

\* A read that another module overrides, without ids.
override_read_method ==
    Method("stock.module",
           <<Arg("cr", FALSE, <<>>), Arg("uid", FALSE, <<>>), Arg("context", TRUE, <<"None">>)>>,
           NoDoc)

\* A method whose doc is an empty list.
unlink_method ==
    Method(BASE_MODULE,
           <<Arg("cr", FALSE, <<>>), Arg("uid", FALSE, <<>>), Arg("ids", FALSE, <<>>),
             Arg("context", TRUE, <<"None">>)>>,
           Doc(TRUE, TRUE, <<>>))

\* A method whose doc is a string, with a default on uid and on an argument that
\* is not the last.
name_get_method ==
    Method("partner.module",
           <<Arg("uid", TRUE, <<"42">>), Arg("flat", TRUE, <<"42">>), Arg("ids", FALSE, <<>>)>>,
           Doc(TRUE, FALSE, <<"Names of the records.">>))

\* With it, a search_fetch of the base module.
OverrideMetadata ==
    Metadata(<<Field("name", "char")>>,
             <<Method_entry("search", search_method), Method_entry("read", override_read_method),
               Method_entry("search_fetch", search_method)>>)

\* A model whose only field is on a keyword and whose only method is a base
\* method outside BASE_FUNCTIONS.
FilteredMetadata ==
    Metadata(<<Field("global", "boolean")>>, <<Method_entry("copy", copy_method)>>)

\* The fields RecordModel.generate_ast is called on: a field is [name, type]
\* and the attributes that the service adds, of which required is one.
FieldPool ==
    {[name |-> field_name, type |-> type, required |-> required] :
        field_name \in {"name", "global", "parent_id"},
        type \in {"char", "many2one", "json"},
        required \in BOOLEAN}

\* The field mappings of at most MaxFields fields: the keys are distinct.
FieldMappings ==
    UNION {{fields \in [1..n -> FieldPool] :
               \A i, j \in 1..n : fields[i].name = fields[j].name => i = j} :
           n \in 0..MaxFields}

\* The methods build_function is called on, under every name.
MethodPool ==
    {read_method, write_method, search_method, copy_method, onchange_method, compute_method,
     override_read_method, unlink_method, name_get_method}

Calls ==
    {[fn |-> "build_function", model_name |-> model_name, method_metadata |-> method_metadata,
      method_name |-> method_name] :
        model_name \in ModelNames, method_metadata \in MethodPool,
        method_name \in MethodNames \cup {"onchange"}}
    \cup
    {[fn |-> "infer_default", arg |-> Arg("value", has_default, default)] :
        has_default \in BOOLEAN, default \in DefaultStrings}
    \cup {[fn |-> "get_argument_annotation_node", model_name |-> model_name,
           method_name |-> method_name, arg_name |-> arg_name,
           overload_position |-> overload_position] :
        model_name \in ModelNames, method_name \in MethodNames, arg_name \in ArgNames,
        overload_position \in Positions}
    \cup {[fn |-> "get_return_annotation_node", model_name |-> model_name,
           method_name |-> method_name, overload_position |-> overload_position] :
        model_name \in ModelNames, method_name \in MethodNames, overload_position \in Positions}
    \cup {[fn |-> "TableModel.generate_ast", model_name |-> model_name, metadata |-> metadata] :
        model_name \in ModelNames \ {BaseModelName},
        metadata \in {m \in MetadataPool : truthy(m)} \cup {OverrideMetadata, FilteredMetadata}}
    \cup {[fn |-> "BaseModel.generate_ast", model_name |-> BaseModelName, metadata |-> metadata] :
        metadata \in MetadataPool \cup {OverrideMetadata, FilteredMetadata}}
    \cup {[fn |-> "RecordModel.generate_ast", model_name |-> model_name,
           metadata |-> Metadata(fields, <<>>)] :
        model_name \in ModelNames \ {BaseModelName}, fields \in FieldMappings}

InitCalls ==
    /\ pc = "idle"
    /\ call \in Calls
    /\ ret = <<>>
    /\ fail_on_error = FALSE
    /\ remote = <<>>
    /\ model_metadata = <<>>
    /\ position = 0
    /\ progress = ModelProgress(0)
    /\ successes = <<>>
    /\ directory_exists = TRUE
    /\ files = <<>>
    /\ events = <<>>
    /\ stdout = <<>>
    /\ registry = NotBuilt
    /\ exc = "none"
    /\ NoConnection

\* The call returns or raises: ret is the outcome.
Returned(fn, outcome) ==
    /\ pc = "idle"
    /\ call.fn = fn
    /\ ret' = outcome
    /\ pc' = "returned"
    /\ UNCHANGED <<call, fail_on_error, remote, model_metadata, position, progress, successes,
                   directory_exists, files, events, stdout, registry, exc, proxyVars, cliVars>>

InferDefault == Returned("infer_default", infer_default(call.arg))

ResolveArgument ==
    Returned("get_argument_annotation_node",
             get_argument_annotation_node(call.model_name, call.method_name, call.arg_name,
                                          call.overload_position))

ResolveReturn ==
    Returned("get_return_annotation_node",
             get_return_annotation_node(call.model_name, call.method_name,
                                        call.overload_position))

GenerateTable ==
    Returned("TableModel.generate_ast", TableModel_generate_ast(call.model_name, call.metadata))

GenerateBase ==
    Returned("BaseModel.generate_ast", BaseModel_generate_ast(call.model_name, call.metadata))

GenerateRecord ==
    Returned("RecordModel.generate_ast", RecordModel_generate_ast(call.model_name, call.metadata))

BuildFunction ==
    Returned("build_function",
             build_function(call.model_name, call.method_metadata, call.method_name))

NextCalls ==
    \/ InferDefault
    \/ ResolveArgument
    \/ ResolveReturn
    \/ GenerateTable
    \/ GenerateBase
    \/ BuildFunction
    \/ GenerateRecord

SpecCalls == InitCalls /\ [][NextCalls]_vars

----------------------------------------------------------------------------
(* controller.py: the proxy ZERPModel of a model, over ZERP.call.            *)
(* A URI is a sequence of pieces of text; a target is <<prefix, method>>.    *)

METHOD_SHORTHANDS ==
    [schema |-> <<"object.execute.", "fields_get">>,
     exec_workflow |-> <<"object.", "exec_workflow">>,
     wizard_create |-> <<"wizard.", "create">>,
     report |-> <<"report.", "report">>,
     report_get |-> <<"report.", "report_get">>,
     reports_fetch |-> <<"report.", "report_get">>,
     search |-> <<"object.execute.", "search">>,
     search_fetch |-> <<"object.execute.", "zerp_search_read">>,
     search_fetch_one |-> <<"object.execute.", "zerp_search_read_one">>,
     read |-> <<"object.execute.", "read">>,
     fetch |-> <<"object.execute.", "read">>,
     fetch_one |-> <<"object.execute.", "read">>,
     write |-> <<"object.execute.", "write">>,
     create |-> <<"object.execute.", "create">>,
     unlink |-> <<"object.execute.", "unlink">>]

\* u':'.join(parts): the parts with the separator between them
RECURSIVE join(_, _)
join(separator, parts) ==
    IF Len(parts) = 1 THEN parts[1]
    ELSE parts[1] \o <<separator>> \o join(separator, Tail(parts))

\* A lookup that knows no shorthand.
getattr_target_of_execute(k) == <<"object.execute.", k>>

\* ZERPModel.__getattr__(k): the target of the lambda it returns
getattr_target(k) ==
    IF k \in DOMAIN METHOD_SHORTHANDS THEN METHOD_SHORTHANDS[k] ELSE <<"object.execute.", k>>

\* ZERP.call(uri, ...): the URI it gives self.wamp.call
ZERP_call(database, uri) == join(":", <<<<"zerp">>, <<database>>, uri>>)

\* The URI of the lambda of ZERPModel.__getattr__(k), as ZERP.call makes it.
ZERPModel_uri(database, model, k) == ZERP_call(database, join(":", <<<<model>>, getattr_target(k)>>))

\* ZERP.report_get(report_id): the URI of its call
report_get_uri(database) == ZERP_call(database, <<"report.", "report_get">>)

\* The names that the class ZERPModel defines: __getattr__ is not called for them.
ZERPModel_methods == {"reports_fetch", "report_fetch_one"}

\* The names that __init__ sets on the proxy: not called for them either.
ZERPModel_fields == {"zerp_", "model_", "schema_"}

\* for i in range(50)
PollLimit == 50

\* An operation on the connection and its outcome: what it returned, or the
\* exception it raised.
WampCall(op, uri, args, kwargs, outcome) ==
    [op |-> op, uri |-> uri, args |-> args, kwargs |-> kwargs, outcome |-> outcome]

\* What a remote procedure returns: rows, or nothing.
Results == {<<"rows">>, <<>>}

\* A report as report_get returns it: state says whether it is ready, result is
\* the file in base64.
Report(state, encoding) == [state |-> state, encoding |-> encoding, data |-> "file"]

Reports == {Report(TRUE, "base64"), Report(FALSE, "base64")}

\* What self.wamp.call does with a URI: it returns a result or raises.
Outcomes(results) == {Ok(r) : r \in results} \cup {Raise("ExWampCallFail")}

\* base64.decodestring(report['result']), where base64 has it
decodestring(report) ==
    IF has_decodestring THEN Ok([report EXCEPT !.encoding = "none"])
                        ELSE Raise("AttributeError")

\* The attributes that are called, their arguments and their keyword arguments.
AttributeNames ==
    {"search", "read", "fetch", "schema", "report", "name_get", "reports_fetch",
     "report_fetch_one", "model_"}

ProxyCalls ==
    {[fn |-> "ZERPModel.attribute", k |-> k, args |-> args, kwargs |-> kwargs,
      model |-> "product.product", database |-> database] :
        k \in AttributeNames,
        args \in {<<"ids">>, <<"ids", "context">>},
        kwargs \in {<<>>, <<[key |-> "limit", value |-> "1"]>>},
        database \in {"sandbox", "live"}}

InitProxy ==
    /\ pc = "idle"
    /\ call \in ProxyCalls
    /\ ret = <<>>
    /\ wamp_calls = <<>>
    /\ has_decodestring \in BOOLEAN
    /\ fail_on_error = FALSE
    /\ remote = <<>>
    /\ model_metadata = <<>>
    /\ position = 0
    /\ progress = ModelProgress(0)
    /\ successes = <<>>
    /\ directory_exists = TRUE
    /\ files = <<>>
    /\ events = <<>>
    /\ stdout = <<>>
    /\ registry = NotBuilt
    /\ exc = "none"
    /\ uri_base = <<>>
    /\ uri_base_bkp = <<>>
    /\ full_uri = <<>>
    /\ sub_metadata = <<>>

\* A step of the proxy: the position, the outcome and the operations made.
ProxyStep(next_pc, outcome, made) ==
    /\ pc' = next_pc
    /\ ret' = outcome
    /\ wamp_calls' = wamp_calls \o made
    /\ UNCHANGED <<call, has_decodestring, runFrame, cliVars>>

\* proxy.<k>(*a, **kw) for a name that __getattr__ is called for: the lambda
\* calls self.zerp_.call and returns what it returns.
CallAttribute ==
    /\ pc = "idle"
    /\ call.k \notin ZERPModel_methods \cup ZERPModel_fields
    /\ \E outcome \in Outcomes(Results) :
        ProxyStep("returned", outcome,
                  <<WampCall("call", ZERPModel_uri(call.database, call.model, call.k),
                             call.args, call.kwargs, outcome)>>)

\* proxy.<k>(...) for a name that __init__ set: the value is no function.
CallField ==
    /\ pc = "idle"
    /\ call.k \in ZERPModel_fields
    /\ ProxyStep("returned", Raise("TypeError"), <<>>)

\* reports_fetch(ids, context=None) up to its loop, report_fetch_one through it:
\* a keyword that is no parameter is a TypeError; then
\* generated_report_id = self.report(ids, context).
ReportRequest ==
    /\ pc = "idle"
    /\ call.k \in ZERPModel_methods
    /\ IF call.kwargs # <<>>
       THEN ProxyStep("returned", Raise("TypeError"), <<>>)
       ELSE \E outcome \in Outcomes({<<"report_id">>}) :
               ProxyStep(IF IsOk(outcome) THEN "polling" ELSE "returned", outcome,
                         <<WampCall("call", ZERPModel_uri(call.database, call.model, "report"),
                                    <<IF call.k = "report_fetch_one" THEN "[report_id]"
                                                                     ELSE call.args[1],
                                      IF Len(call.args) > 1 THEN call.args[2] ELSE "{}">>,
                                    <<>>, outcome)>>)

\* The polls made: the report_get calls of the log.
PollsMade == {i \in DOMAIN wamp_calls : wamp_calls[i].uri = report_get_uri(call.database)}

\* What reports_fetch does with a report that is ready: the list of the report
\* with its result decoded; report_fetch_one returns reports[0].
fetched(report) ==
    Bind(decodestring(report),
         LAMBDA decoded : Ok(IF call.k = "report_fetch_one" THEN decoded ELSE <<decoded>>))

\* One pass of the loop of reports_fetch, as poll number polls + 1: report_get
\* raises, or the report is ready (break, return reports), or it is not and the
\* loop goes on; after the last pass the else clause raises.
after_poll(outcome, polls) ==
    IF ~IsOk(outcome) THEN [pc |-> "returned", ret |-> outcome]
    ELSE IF outcome.value.state THEN [pc |-> "returned", ret |-> fetched(outcome.value)]
    ELSE IF polls + 1 = PollLimit THEN [pc |-> "returned", ret |-> Raise("Exception")]
    ELSE [pc |-> "polling", ret |-> outcome]

Poll ==
    /\ pc = "polling"
    /\ \E outcome \in Outcomes(Reports) :
        ProxyStep(after_poll(outcome, Cardinality(PollsMade)).pc,
                  after_poll(outcome, Cardinality(PollsMade)).ret,
                  <<WampCall("call", report_get_uri(call.database),
                             <<wamp_calls[1].outcome.value[1]>>, <<>>, outcome)>>)

NextProxy == CallAttribute \/ CallField \/ ReportRequest \/ Poll

SpecProxy == InitProxy /\ [][NextProxy]_vars

----------------------------------------------------------------------------
(* wampcli.py: the prompt replPrompt over the connection wamp.wamp.          *)
(* A raw URI is a sequence of pieces of text, ".." and a line break being    *)
(* pieces of their own.                                                      *)

\* METHOD_SHORTHANDS.get(shorthand, ''), or object.execute.<shorthand>
shorthand_method(shorthand) ==
    IF Len(shorthand) = 1 /\ shorthand[1] \in DOMAIN METHOD_SHORTHANDS
    THEN METHOD_SHORTHANDS[shorthand[1]]
    ELSE <<"object.execute.">> \o shorthand

\* re.search(r'\.\..*$', raw_uri): the places of a ".." with no line break after it
shorthand_matches(raw_uri) ==
    {i \in DOMAIN raw_uri :
        raw_uri[i] = ".." /\ \A j \in (i + 1)..Len(raw_uri) : raw_uri[j] # "\n"}

\* '{}.zerp:{}:{}:{}'.format(uri_base, zerp.database, model, shorthand_method)
expanded_at(base, database, raw_uri, i) ==
    base \o <<".zerp:", database, ":">> \o SubSeq(raw_uri, 1, i - 1) \o <<":">>
    \o shorthand_method(SubSeq(raw_uri, i + 1, Len(raw_uri)))

get_expanded_shorthand_uri(base, database, raw_uri) ==
    IF shorthand_matches(raw_uri) # {}
    THEN Ok(expanded_at(base, database, raw_uri,
                        CHOOSE i \in shorthand_matches(raw_uri) :
                            \A j \in shorthand_matches(raw_uri) : i <= j))
    ELSE Raise("Exception")

get_full_zerp_uri(base, database, raw_uri) ==
    IF raw_uri # <<>> /\ raw_uri[1] \in {"com", "wamp"} THEN Ok(raw_uri)
    ELSE IF ".." \in Range(raw_uri) THEN get_expanded_shorthand_uri(base, database, raw_uri)
    ELSE Ok(base \o <<".zerp:", database, ":">> \o raw_uri)

\* args.format(stdin=global_args['stdin']): {stdin} is replaced, another field
\* is a KeyError and a single brace a ValueError.
str_format(args, stdin) ==
    IF "{" \in Range(args) THEN Raise("ValueError")
    ELSE IF "{topic}" \in Range(args) THEN Raise("KeyError")
    ELSE Ok([i \in DOMAIN args |-> IF args[i] = "{stdin}" THEN stdin ELSE args[i]])

\* What publish and subscribe return: truthy or not, and the pieces of its str().
WampMetadata(is_truthy, text) == [truthy |-> is_truthy, text |-> text, subscription_id |-> "7"]

WampMetadatas ==
    {WampMetadata(TRUE, <<"SUBSCRIBED", "7">>), WampMetadata(FALSE, <<"None">>),
     WampMetadata(TRUE, <<"ERROR", "wamp.", "error", ".not_authorized">>)}

\* not metadata or 'error' in str(metadata)
wamp_failed(metadata) == ~metadata.truthy \/ "error" \in Range(metadata.text)

\* A finally clause that resets uri_base only when the try block returned.
uri_base_when_returned(backup, outcome) == IF IsOk(outcome) THEN backup ELSE <<>>

\* finally: wamp.wamp.uri_base = uri_base_bkp, whatever the try block did
uri_base_finally(backup, outcome) == backup

\* The URIs typed at the prompt, and the calls of the prompt.
RawUris ==
    {<<"com", ".izaber.wamp.test">>, <<"wamp", ".session.list">>,
     <<"product.product", "..", "read">>, <<"product.product", "..", "name_get">>,
     <<"product.product", ":", "object.execute.read">>,
     <<"product.product", "..", "\n", "read">>,
     <<"com", ".izaber.", "{stdin}">>, <<"com", ".izaber.", "{topic}">>,
     <<"com", ".izaber.", "{">>}

CliCalls ==
    {[fn |-> fn, uri |-> uri, args |-> args, uri_base |-> base, database |-> "sandbox",
      stdin |-> "test"] :
        fn \in {"call_uri", "publish_uri", "subscribe_uri", "do_sub"},
        uri \in RawUris, args \in {<<>>, <<"1596">>},
        base \in {<<"com.izaber.wamp">>, <<"com.example">>}}

InitCli ==
    /\ pc = "idle"
    /\ call \in CliCalls
    /\ ret = <<>>
    /\ wamp_calls = <<>>
    /\ uri_base = call.uri_base
    /\ uri_base_bkp = <<>>
    /\ full_uri = <<>>
    /\ sub_metadata = <<>>
    /\ has_decodestring = FALSE
    /\ fail_on_error = FALSE
    /\ remote = <<>>
    /\ model_metadata = <<>>
    /\ position = 0
    /\ progress = ModelProgress(0)
    /\ successes = <<>>
    /\ directory_exists = TRUE
    /\ files = <<>>
    /\ events = <<>>
    /\ stdout = <<>>
    /\ registry = NotBuilt
    /\ exc = "none"

\* do_sub before its try: args = args.format(stdin=...); its exception leaves do_sub.
DoSubFormat ==
    /\ pc = "idle"
    /\ call.fn = "do_sub"
    /\ ret' = str_format(call.uri, call.stdin)
    /\ pc' = IF IsOk(str_format(call.uri, call.stdin)) THEN "formatted" ELSE "escaped"
    /\ UNCHANGED <<call, runFrame, proxyVars, cliVars>>

\* call_uri, publish_uri and subscribe_uri before their try:
\* uri_base_bkp = wamp.wamp.uri_base, then wamp.wamp.uri_base = ''.
Enter ==
    /\ \/ pc = "idle" /\ call.fn # "do_sub"
       \/ pc = "formatted"
    /\ uri_base_bkp' = uri_base
    /\ uri_base' = <<>>
    /\ pc' = "entered"
    /\ UNCHANGED <<call, ret, runFrame, proxyVars, full_uri, sub_metadata>>

\* full_uri = self.get_full_zerp_uri(uri_base_bkp, uri), from its outcome on
Expanded(outcome) ==
    /\ full_uri' = IF IsOk(outcome) THEN outcome.value ELSE full_uri
    /\ ret' = outcome
    /\ pc' = IF IsOk(outcome) THEN "expanded" ELSE "finally"
    /\ UNCHANGED <<call, runFrame, proxyVars, uri_base, uri_base_bkp, sub_metadata>>

Expand ==
    /\ pc = "entered"
    /\ Expanded(get_full_zerp_uri(uri_base_bkp, call.database,
                                  IF call.fn = "do_sub" THEN ret.value ELSE call.uri))

\* What the try block makes of the outcome of the operation: call_uri returns
\* the result; publish_uri and subscribe_uri raise on metadata that failed, and
\* publish_uri returns None.
operated(fn, outcome) ==
    IF ~IsOk(outcome) \/ fn = "call_uri" THEN outcome
    ELSE IF wamp_failed(outcome.value) THEN Raise("Exception")
    ELSE IF fn = "publish_uri" THEN Ok(<<>>)
    ELSE outcome

\* wamp.wamp.call, publish or subscribe of full_uri; do_sub subscribes with its callback.
Operate ==
    /\ pc = "expanded"
    /\ \E outcome \in Outcomes(IF call.fn = "call_uri" THEN Results ELSE WampMetadatas) :
        /\ wamp_calls' = Append(wamp_calls,
                                WampCall(CASE call.fn = "call_uri" -> "call"
                                           [] call.fn = "publish_uri" -> "publish"
                                           [] OTHER -> "subscribe",
                                         full_uri,
                                         IF call.fn = "do_sub" THEN <<"sub_callback">> ELSE call.args,
                                         <<>>, outcome))
        /\ ret' = operated(call.fn, outcome)
    /\ pc' = "finally"
    /\ UNCHANGED <<call, runFrame, has_decodestring, cliVars>>

\* The finally clause, and the return to the caller: do_sub keeps what
\* subscribe_uri returned and waits, or prints the exception and returns.
Finally ==
    /\ pc = "finally"
    /\ uri_base' = uri_base_finally(uri_base_bkp, ret)
    /\ IF call.fn # "do_sub"
       THEN /\ pc' = "returned"
            /\ UNCHANGED <<ret, sub_metadata>>
       ELSE IF IsOk(ret)
       THEN /\ pc' = "waiting"
            /\ sub_metadata' = ret.value
            /\ ret' = ret
       ELSE /\ pc' = "returned"
            /\ stdout' = Append(stdout, ret.raised)
            /\ ret' = Ok(<<>>)
            /\ UNCHANGED sub_metadata
    /\ IF call.fn = "do_sub" /\ ~IsOk(ret)
       THEN UNCHANGED <<fail_on_error, remote, model_metadata, position, progress, successes,
                        directory_exists, files, events, registry, exc>>
       ELSE UNCHANGED runFrame
    /\ UNCHANGED <<call, proxyVars, uri_base_bkp, full_uri>>

\* while True: time.sleep(10), until the keyboard interrupt or an exception:
\* the first is passed, the second printed.
Wait ==
    /\ pc = "waiting"
    /\ \E raised \in {"KeyboardInterrupt", "Exception"} :
        stdout' = IF raised = "Exception" THEN Append(stdout, raised) ELSE stdout
    /\ pc' = "unsubscribing"
    /\ UNCHANGED <<call, ret, fail_on_error, remote, model_metadata, position, progress,
                   successes, directory_exists, files, events, registry, exc, proxyVars, cliVars>>

\* finally: if sub_metadata: wamp.wamp.unsubscribe(sub_metadata.subscription_id);
\* what it raises leaves do_sub.
Unsubscribe ==
    /\ pc = "unsubscribing"
    /\ \E outcome \in Outcomes({<<>>}) :
        /\ wamp_calls' = Append(wamp_calls,
                                WampCall("unsubscribe", <<>>, <<sub_metadata.subscription_id>>,
                                         <<>>, outcome))
        /\ ret' = outcome
        /\ pc' = IF IsOk(outcome) THEN "returned" ELSE "escaped"
    /\ UNCHANGED <<call, runFrame, has_decodestring, cliVars>>

NextCli == DoSubFormat \/ Enter \/ Expand \/ Operate \/ Finally \/ Wait \/ Unsubscribe

SpecCli == InitCli /\ [][NextCli]_vars

----------------------------------------------------------------------------
(* Properties of run() *)

\* The positions of the log that hold an event ev, and the models they name.
Logged(ev) == {i \in DOMAIN events : events[i].ev = ev}

NamesLogged(ev) == {events[i].model : i \in Logged(ev)}

\* The exceptions raised by the creates of the loop.
ModelRaises == {i \in Logged("raise") : events[i].type_model \in {"RecordModel", "TableModel"}}

\* The keys of the TypedZERP that was generated.
RegistryKeys == IF registry = NotBuilt THEN {} ELSE Range(registry.keys)

RegistryFile == write_path("TypedZERPModel", <<"TypedZERPModel">>)

\* The with block of run() was entered: the base file was written.
LoopEntered == \E i \in Logged("write") : events[i].type_model = "BaseModel"

\* The models the handler marked, in the order of the marks.
Marked ==
    [i \in DOMAIN select_from(events, LAMBDA e : e.ev \in {"ignore", "error", "success"}, 1) |->
        select_from(events, LAMBDA e : e.ev \in {"ignore", "error", "success"}, 1)[i].model]

\* C1: in every run that reaches the registry step, no model that was marked
\* ignored and no model that was marked error is a key of the generated TypedZERP.
RegistryExcludesIgnoredAndErrored ==
    registry # NotBuilt =>
        RegistryKeys \cap (NamesLogged("ignore") \cup NamesLogged("error")) = {}

\* A registry with keys, generated by a run that ignored a model and failed on another.
RegistryExcludesWitness ==
    /\ registry # NotBuilt
    /\ RegistryKeys # {}
    /\ NamesLogged("ignore") # {}
    /\ NamesLogged("error") # {}

\* C2: when run() builds the registry, the key set of the registry is exactly the
\* set of names in handler.successes, whatever the catalog.
RegistryKeysAreSuccesses ==
    registry # NotBuilt => RegistryKeys = Range(successes)

\* C3: an entry whose metadata is absent or empty is only marked ignored: its name
\* is never in handler.successes, no create is called for it and no file is
\* written for it.
IgnoredIsOnlyMarked ==
    \A i \in Logged("ignore") :
        /\ events[i].model \notin Range(successes)
        /\ \A j \in DOMAIN events : events[j].model = events[i].model => j = i
        /\ write_path("RecordModel", events[i].model) \notin DOMAIN files
        /\ write_path("TableModel", events[i].model) \notin DOMAIN files

\* C4: with fail_on_error, the first exception raised by the create of a model
\* leaves run(): it is the last thing that happened, the entries after the model
\* are not processed, and the registry is neither generated nor written.
FailFastPropagates ==
    fail_on_error =>
        \A i \in ModelRaises :
            /\ i = Len(events)
            /\ pc = "raised"
            /\ exc = events[i].exception
            /\ position < Len(model_metadata)
            /\ model_metadata[position + 1].name = events[i].model
            /\ Marked = SubSeq(keys_of(model_metadata), 1, position)
            /\ registry = NotBuilt
            /\ RegistryFile \notin DOMAIN files

\* A fail-fast run stopped by a model that is neither the first nor the last entry.
FailFastWitness ==
    /\ fail_on_error
    /\ pc = "raised"
    /\ ModelRaises # {}
    /\ position >= 1
    /\ position + 1 < Len(model_metadata)

\* C5: without fail_on_error, an exception raised while the declarations of a model
\* are built is caught: the model is marked error and the error counter grows by
\* one, the model is neither in handler.successes nor in the registry, the
\* entries are processed in catalog order to the last, and the registry is
\* generated after the loop.
ContinueCatches ==
    ~fail_on_error =>
        /\ \A i \in ModelRaises :
              /\ i < Len(events)
              /\ events[i + 1].ev = "error"
              /\ events[i + 1].model = events[i].model
        /\ progress.errors = Cardinality(ModelRaises)
        /\ Cardinality(Logged("error")) = Cardinality(ModelRaises)
        /\ NamesLogged("error") \cap Range(successes) = {}
        /\ NamesLogged("error") \cap RegistryKeys = {}
        /\ Marked = SubSeq(keys_of(model_metadata), 1, position)
        /\ (LoopEntered /\ pc \in {"done", "raised"}) =>
              /\ position = Len(model_metadata)
              /\ registry # NotBuilt
              /\ events[Len(events)].type_model = "TypedZERPModel"

\* A completed run in which the generation of a model raised and a later model
\* was generated.
ContinueWitness ==
    /\ ~fail_on_error
    /\ pc = "done"
    /\ RegistryKeys # {}
    /\ \E i \in ModelRaises :
          /\ events[i].exception # "OSError"
          /\ \E j \in Logged("success") : j > i

\* C6: whenever write_model raises, for whichever file and under both policies,
\* run() ends with that exception and nothing more is processed.
WriteFailureIsFatal ==
    \A i \in Logged("raise") :
        events[i].exception = "OSError" =>
            /\ i = Len(events)
            /\ pc = "raised"
            /\ exc = "OSError"

\* C6, as the code has it: a failure to write the base file or the registry file
\* ends run() with the exception under both policies; a failure to write the
\* Record or Table file of a model ends run() only with fail_on_error, and is
\* otherwise caught as any exception of the model is: the model is marked error.
WriteFailureIsFatalOrCaught ==
    \A i \in Logged("raise") :
        events[i].exception = "OSError" =>
            IF fail_on_error \/ i \notin ModelRaises
            THEN /\ i = Len(events)
                 /\ pc = "raised"
                 /\ exc = "OSError"
            ELSE /\ i < Len(events)
                 /\ events[i + 1].ev = "error"
                 /\ events[i + 1].model = events[i].model
                 /\ events[i].model \notin Range(successes)

\* A run without fail_on_error that went on after a model's file could not be
\* written, and then ended on the registry file that could not be written.
WriteFailureWitness ==
    /\ ~fail_on_error
    /\ pc = "raised"
    /\ \E i \in ModelRaises :
          /\ events[i].exception = "OSError"
          /\ \E j \in Logged("success") : j > i
    /\ \E i \in Logged("raise") :
          events[i].type_model = "TypedZERPModel" /\ events[i].exception = "OSError"

\* C7: the summary is printed only by a run that completed the loop; a run with
\* fail_on_error that a model's exception ended printed nothing.
SummaryOnlyAfterLoop ==
    /\ stdout # <<>> => position = Len(model_metadata)
    /\ (fail_on_error /\ pc = "raised" /\ ModelRaises # {}) => stdout = <<>>

\* C7, as the code has it: the summary is printed once, with the counts of the
\* handler, when the with block is left, also when an exception leaves it (a
\* model's exception with fail_on_error, or the registry's); a run that ends
\* before the block (the fetch or the base model raised) prints nothing.
SummaryOnEveryExit ==
    /\ stdout = IF LoopEntered /\ pc \in {"done", "raised"} THEN <<progress>> ELSE <<>>
    /\ (fail_on_error /\ pc = "raised" /\ ModelRaises # {}) => stdout = <<progress>>

\* A fail-fast run ended by a model's exception, after another model was generated.
SummaryWitness ==
    /\ fail_on_error
    /\ pc = "raised"
    /\ ModelRaises # {}
    /\ Len(stdout) = 1
    /\ stdout[1].success >= 1

----------------------------------------------------------------------------
(* Properties of the functions *)

\* C8: infer_default never raises for an argument that has a default: it returns
\* the literal its default string denotes or, for every other string, the string.
InferDefaultNeverRaises ==
    (pc = "returned" /\ call.fn = "infer_default" /\ call.arg.has_default) =>
        /\ ret.raised = "none"
        /\ ret.value = IF IsOk(literal_eval(call.arg.default))
                       THEN literal_eval(call.arg.default).value
                       ELSE PyStr(call.arg.default)

\* C9: for the model name "BaseModel" the resolution of an argument and of a
\* return looks nothing up in BASE_TYPE_HINTS: for every method and every argument
\* name it gives no annotation and does not raise, and the base declaration is
\* generated from metadata that has a read of the base module with an ids argument.
BaseModelBypassesHints ==
    pc = "returned" =>
        /\ (call.fn = "get_argument_annotation_node" /\ call.model_name = BaseModelName
                /\ call.arg_name # "") =>
              ret = Ok(argument(call.arg_name, NoAnnotation))
        /\ (call.fn = "get_return_annotation_node" /\ call.model_name = BaseModelName) =>
              ret = Ok(NoAnnotation)
        /\ (call.fn = "BaseModel.generate_ast" /\ call.metadata = PartnerMetadata) =>
              ret.raised = "none"

\* The definitions of read in the class that TableModel.generate_ast returned.
ReadDefinitions == select_from(ret.value.class_node.body, LAMBDA f : f.name = "read", 1)

\* The annotations of the ids arguments of a definition.
IdsAnnotations(definition) ==
    {definition.args.args[i].annotation :
        i \in {j \in DOMAIN definition.args.args : definition.args.args[j].arg = "ids"}}

TableReturned ==
    /\ pc = "returned"
    /\ call.fn = "TableModel.generate_ast"
    /\ ret.raised = "none"
    /\ ret.value # <<>>

\* C10: when the class of a Table has a read, it has exactly two definitions of
\* read, each decorated with overload: the first takes ids as List[int] and
\* returns the list of the model's records, the second takes ids as int and
\* returns the model's record.
ReadHasTwoOverloads ==
    (TableReturned /\ ReadDefinitions # <<>>) =>
        /\ Len(ReadDefinitions) = 2
        /\ \A i \in 1..2 : ReadDefinitions[i].decorator_list = <<"overload">>
        /\ IdsAnnotations(ReadDefinitions[1]) \subseteq {Annotation("static", "List[int]", <<>>)}
        /\ ReadDefinitions[1].returns
              = Annotation("List", "", make_read_model_classname(call.model_name))
        /\ IdsAnnotations(ReadDefinitions[2]) \subseteq {Annotation("static", "int", <<>>)}
        /\ ReadDefinitions[2].returns
              = Annotation("Name", "", make_read_model_classname(call.model_name))

\* A Table with a read that takes ids, among other methods.
ReadOverloadsWitness ==
    /\ TableReturned
    /\ Len(ReadDefinitions) = 2
    /\ IdsAnnotations(ReadDefinitions[1]) # {}
    /\ IdsAnnotations(ReadDefinitions[2]) # {}
    /\ Len(ret.value.class_node.body) > 2

\* build_function returned its list of definitions.
BuildFunctionReturned ==
    /\ pc = "returned"
    /\ call.fn = "build_function"
    /\ ret.raised = "none"

\* The method build_function was called for has a list of entries in BASE_TYPE_HINTS.
CalledForList ==
    /\ call.method_name \in DOMAIN BASE_TYPE_HINTS
    /\ BASE_TYPE_HINTS[call.method_name].is_list

\* C11: build_function returns one definition for a method that BASE_TYPE_HINTS
\* does not have or has as one dict, and one definition for each entry of a list
\* of BASE_TYPE_HINTS, in the order of the list; every definition has the
\* method's name.
OneSignaturePerEntry ==
    BuildFunctionReturned =>
        /\ Len(ret.value) = IF CalledForList
                            THEN Len(BASE_TYPE_HINTS[call.method_name].entries) ELSE 1
        /\ \A i \in DOMAIN ret.value : ret.value[i].name = call.method_name
        /\ (CalledForList /\ call.model_name # BaseModelName) =>
              \A i \in DOMAIN ret.value :
                  Ok(ret.value[i].returns)
                    = return_node(BASE_TYPE_HINTS[call.method_name].entries[i].returns,
                                  call.model_name)

\* Definitions returned for a list of two entries, and one returned for a method
\* that has one dict.
OneSignatureWitnessList ==
    /\ BuildFunctionReturned
    /\ CalledForList
    /\ call.model_name # BaseModelName
    /\ Len(ret.value) = 2
    /\ ret.value[1].returns # ret.value[2].returns

\* The method of the call has no entry in BASE_TYPE_HINTS.
MethodAbsent == call.method_name \notin DOMAIN BASE_TYPE_HINTS

\* The method and position of the call have a dict in BASE_TYPE_HINTS, which has
\* no hint for the argument.
ArgumentAbsent ==
    /\ IsOk(hint_dict(call.method_name, call.overload_position))
    /\ call.arg_name \notin DOMAIN hint_dict(call.method_name, call.overload_position).value.arguments

TableMethodNames ==
    {ret.value.class_node.body[i].name : i \in DOMAIN ret.value.class_node.body}

\* The names of the methods of the metadata that are of another module than the
\* base module, or have one of these names.
NamesKept(allowed) ==
    {call.metadata.methods[i].name :
        i \in {j \in DOMAIN call.metadata.methods :
                  \/ call.metadata.methods[j].meta.module # BASE_MODULE
                  \/ call.metadata.methods[j].name \in allowed}}

\* C13: the class of a Table has a method of the base module exactly when its name
\* is create, read, write, unlink, search or search_fetch, and has every method
\* of another module.
TableKeepsAllowListWithSearchFetch ==
    TableReturned =>
        TableMethodNames
          = NamesKept({"create", "read", "write", "unlink", "search", "search_fetch"})

\* C13, as the code has it: the names of the base module that are kept are
\* create, read, write, unlink and search; search_fetch is not one of them.
TableKeepsAllowList ==
    TableReturned =>
        TableMethodNames = NamesKept({"create", "read", "write", "unlink", "search"})

\* A Table from metadata with a kept and a skipped method of the base module and
\* a method of another module.
TableKeepsWitness ==
    /\ TableReturned
    /\ \E i, j, k \in DOMAIN call.metadata.methods :
          /\ call.metadata.methods[i].meta.module = BASE_MODULE
          /\ call.metadata.methods[i].name \in TableMethodNames
          /\ call.metadata.methods[j].meta.module = BASE_MODULE
          /\ call.metadata.methods[j].name \notin TableMethodNames
          /\ call.metadata.methods[k].meta.module # BASE_MODULE
          /\ call.metadata.methods[k].name \in TableMethodNames

\* RecordModel.generate_ast returned its tree.
RecordReturned ==
    /\ pc = "returned"
    /\ call.fn = "RecordModel.generate_ast"
    /\ ret.raised = "none"

\* The members of the Literal of the fields alias, in order.
LiteralMembers ==
    [i \in DOMAIN ret.value.fields_definition.elts |->
        ret.value.fields_definition.elts[i].constant]

\* The names annotated in the body of the record's class.
RecordFieldNames ==
    {ret.value.class_node.body[i].text :
        i \in {j \in DOMAIN ret.value.class_node.body :
                  ret.value.class_node.body[j].stmt = "annotation"}}

\* Of the names of FieldPool, the reserved words of the language.
ReservedNames == {"global"}

\* The keys of the fields of the metadata that are no reserved words, in order.
KeysKept == select_from(call.metadata.fields, LAMBDA f : f.name \notin ReservedNames, 1)

\* C15: for a model with a field, the members of the Literal are the keys of the
\* fields that are no keywords: the names of the fields of the record.
LiteralIsRecordFields ==
    (RecordReturned /\ call.metadata.fields # <<>>) =>
        /\ Range(LiteralMembers) = {PyStr(<<KeysKept[i].name>>) : i \in DOMAIN KeysKept}
        /\ Range(LiteralMembers) = {PyStr(<<field_name>>) : field_name \in RecordFieldNames}

\* C15, as the code has it: the members of the Literal are all the keys of the
\* fields, keywords too, in their order; the record has the keys that are no
\* keywords, so the two sets differ by the keys that are keywords.
LiteralIsAllKeys ==
    (RecordReturned /\ call.metadata.fields # <<>>) =>
        /\ LiteralMembers
             = [i \in DOMAIN call.metadata.fields |-> PyStr(<<call.metadata.fields[i].name>>)]
        /\ RecordFieldNames = {KeysKept[i].name : i \in DOMAIN KeysKept}

\* A record from fields of which one is a keyword.
LiteralWitness ==
    /\ RecordReturned
    /\ Len(LiteralMembers) > 1
    /\ Len(KeysKept) >= 1
    /\ Len(KeysKept) < Len(call.metadata.fields)

\* C16: the body of the record's class has one annotation for each key of the
\* fields that is no keyword, in the order of the metadata, and the annotation is
\* Z2P_TYPES[type] of the field: nothing else of the field is in it.
RecordListsFields ==
    (RecordReturned /\ call.metadata.fields # <<>>) =>
        ret.value.class_node.body
          = [i \in DOMAIN KeysKept |->
                [stmt |-> "annotation", text |-> KeysKept[i].name,
                 type |-> Z2P_TYPES[KeysKept[i].type]]]

\* A record of two annotations, from fields of which one is required and one a keyword.
RecordListsWitness ==
    /\ RecordReturned
    /\ Len(ret.value.class_node.body) = 2
    /\ ret.value.class_node.body[1].type # ret.value.class_node.body[2].type
    /\ \E i \in DOMAIN call.metadata.fields : call.metadata.fields[i].required

\* The doc of the method build_function was called for is a list with an entry.
DocIsList == call.method_metadata.doc.is_list /\ call.method_metadata.doc.entries # <<>>

Remaining == select_from(call.method_metadata.args, LAMBDA a : a.name \notin {"cr", "uid", "user"}, 1)

\* C26: in every definition the arguments are the arguments of the method other
\* than cr, uid and user, in order, and the defaults are the defaults of those of
\* them that have one, in order: never more defaults than arguments.
DefaultsOfRemainingArguments ==
    BuildFunctionReturned =>
        \A i \in DOMAIN ret.value :
            /\ [a \in DOMAIN ret.value[i].args.args |-> ret.value[i].args.args[a].arg]
                 = [a \in DOMAIN Remaining |-> Remaining[a].name]
            /\ ret.value[i].args.defaults
                 = [a \in DOMAIN select_from(Remaining, LAMBDA r : r.has_default, 1) |->
                      [constant |->
                          infer_default(select_from(Remaining, LAMBDA r : r.has_default, 1)[a]).value]]
            /\ Len(ret.value[i].args.defaults) <= Len(ret.value[i].args.args)

\* A definition from a method with a default on uid: one default for two arguments.
DefaultsWitness ==
    /\ BuildFunctionReturned
    /\ \E a \in DOMAIN call.method_metadata.args :
          call.method_metadata.args[a].name = "uid" /\ call.method_metadata.args[a].has_default
    /\ Len(ret.value[1].args.defaults) = 1
    /\ Len(ret.value[1].args.args) = 2

\* A generator returned a tree with a class.
ClassReturned ==
    /\ pc = "returned"
    /\ call.fn \in {"RecordModel.generate_ast", "TableModel.generate_ast", "BaseModel.generate_ast"}
    /\ ret.raised = "none"
    /\ ret.value # <<>>

\* C27: the class of every tree that a generator returns has a statement in its
\* body: a record of fields on keywords only and a table of methods that are all
\* filtered have the ellipsis.
EveryClassHasAMember == ClassReturned => ret.value.class_node.body # <<>>

----------------------------------------------------------------------------
(* Properties of the files of run() *)

\* The positions of the log where a file of this kind was written for the model.
Written(type_model, model_name) ==
    {i \in Logged("write") :
        events[i].type_model = type_model /\ events[i].model = model_name}

\* C14: every key of the TypedZERP that was generated names a model whose Table
\* was generated and written to its file in this run.
RegistryValuesWereWritten ==
    registry # NotBuilt =>
        \A key \in RegistryKeys :
            /\ Written("TableModel", key) # {}
            /\ write_path("TableModel", key) \in DOMAIN files

\* The model of the last iteration of the loop that ended.
LastModel == model_metadata[position]

\* The loop ended an iteration on a model of no field that has metadata.
ZeroFieldIterated ==
    /\ pc = "loop"
    /\ position > 0
    /\ registry = NotBuilt
    /\ truthy(LastModel.meta)
    /\ LastModel.meta.fields = <<>>

\* The raise events of the creates of a model.
RaisedFor(model_name) == {i \in ModelRaises : events[i].model = model_name}

\* C17: a model of no field never fails in the generation of its record: the
\* only exception of that create is the one of the write; the file written has
\* the class with the placeholder as its body and the Literal with None as its
\* only member; and the model is a success when its table raises nothing.
ZeroFieldsNeverFail ==
    /\ \A i \in ModelRaises :
          (/\ events[i].type_model = "RecordModel"
           /\ lookup(remote, events[i].model).value.fields = <<>>)
              => events[i].exception = "OSError"
    /\ ZeroFieldIterated =>
          /\ Written("RecordModel", LastModel.name) # {} =>
                /\ files[write_path("RecordModel", LastModel.name)].class_node.body
                     = <<ellipsis_expression>>
                /\ files[write_path("RecordModel", LastModel.name)].fields_definition.elts
                     = <<constant(PyNone)>>
          /\ RaisedFor(LastModel.name) = {} =>
                /\ Written("RecordModel", LastModel.name) # {}
                /\ events[Len(events)] = Event("success", "", LastModel.name, <<>>, "none")
                /\ successes[Len(successes)] = LastModel.name

\* A model of no field that is a success, with its record written.
ZeroFieldsWitness ==
    /\ ZeroFieldIterated
    /\ RaisedFor(LastModel.name) = {}
    /\ Written("RecordModel", LastModel.name) # {}
    /\ successes[Len(successes)] = LastModel.name
    /\ LastModel.name # IrModel

\* The models of the catalog that have a field, on one of these keys, of a type
\* that Z2P_TYPES does not have.
OfUnknownKind(field_names) ==
    {i \in DOMAIN remote :
        /\ truthy(remote[i].meta)
        /\ \E f \in DOMAIN remote[i].meta.fields :
              /\ remote[i].meta.fields[f].name \in field_names
              /\ remote[i].meta.fields[f].type \notin DOMAIN Z2P_TYPES}

\* The models of the catalog whose record was created, or tried.
Tried == {i \in DOMAIN remote :
             \E e \in Logged("create") :
                 events[e].type_model = "RecordModel" /\ events[e].model = remote[i].name}

\* The keys of the fields that are explored.
FieldNames == {"name", "parent_id", "global", "payload"}

\* The failure of a model is its own: the create of its record raises KeyError
\* with no file of the model written and its table not tried; when the run goes
\* on, the model is marked an error, is no success and no key of the registry,
\* and the loop goes on to the models after it; when it does not, the run ends on
\* that KeyError.
FailsAlone(i) ==
    /\ \E e \in RaisedFor(remote[i].name) :
          /\ events[e].type_model = "RecordModel"
          /\ events[e].exception = "KeyError"
          /\ fail_on_error => e = Len(events)
          /\ ~fail_on_error => events[e + 1] = Event("error", "", remote[i].name, <<>>, "none")
    /\ Written("RecordModel", remote[i].name) = {}
    /\ Written("TableModel", remote[i].name) = {}
    /\ \A e \in Logged("create") : events[e].model = remote[i].name
                                       => events[e].type_model = "RecordModel"
    /\ fail_on_error => (pc = "raised" /\ exc = "KeyError" /\ position = i - 1)
    /\ ~fail_on_error =>
          /\ position >= i
          /\ remote[i].name \notin Range(successes)
          /\ remote[i].name \notin RegistryKeys
          /\ progress.errors >= 1
          /\ pc = "raised" => exc = "OSError"

\* C18: every model with a field of a type outside Z2P_TYPES fails, alone.
UnknownKindFailsAlone == \A i \in Tried \cap OfUnknownKind(FieldNames) : FailsAlone(i)

\* C18, with the keys that are reserved words set aside: these fields are
\* skipped before their type is looked up.
UnknownKindOfKeptKeyFailsAlone ==
    \A i \in Tried \cap OfUnknownKind(FieldNames \ ReservedNames) : FailsAlone(i)

\* The run went on after a model of an unknown kind, to a success and to the registry.
UnknownKindWitness ==
    /\ ~fail_on_error
    /\ pc = "done"
    /\ \E i \in Tried \cap OfUnknownKind(FieldNames \ ReservedNames) :
          /\ i < Len(remote)
          /\ remote[i + 1].name \in RegistryKeys

\* C19: the keys of a catalog are distinct, and no two writes of a run are to
\* the same path: no file of the run is written over.
WritesNeverCollide ==
    \A i, j \in Logged("write") : events[i].path = events[j].path => i = j

\* The writes of the record and of the table of a model.
ModelWrites == {i \in Logged("write") : events[i].type_model \in {"RecordModel", "TableModel"}}

\* The place of a model in the catalog.
PlaceOf(model_name) == CHOOSE k \in DOMAIN remote : remote[k].name = model_name

\* C20: the base file is written once, before every file of a model; the files
\* of the models are written in the order of the catalog, the record of a model
\* before its table; the registry is written once, after every other file.
WritesAreOrdered ==
    /\ Logged("write") # {} =>
          \E b \in Logged("write") :
              /\ events[b].type_model = "BaseModel"
              /\ \A i \in Logged("write") \ {b} :
                    i > b /\ events[i].type_model # "BaseModel"
    /\ \A i, j \in ModelWrites :
          i < j =>
              \/ PlaceOf(events[i].model) < PlaceOf(events[j].model)
              \/ /\ events[i].model = events[j].model
                 /\ events[i].type_model = "RecordModel"
                 /\ events[j].type_model = "TableModel"
    /\ \A r \in Logged("write") :
          events[r].type_model = "TypedZERPModel" =>
              /\ r = Len(events)
              /\ \A i \in Logged("write") \ {r} : events[i].type_model # "TypedZERPModel"
    /\ pc = "done" => events[Len(events)].type_model = "TypedZERPModel"
                       /\ events[Len(events)].ev = "write"

\* A run to its end that wrote the record and the table of two models.
WritesOrderedWitness ==
    /\ pc = "done"
    /\ \E i, j \in ModelWrites :
          /\ events[i].model # events[j].model
          /\ events[i].type_model = "TableModel"
          /\ events[j].type_model = "TableModel"
          /\ Written("RecordModel", events[i].model) # {}
          /\ Written("RecordModel", events[j].model) # {}

\* C24: in a run that goes on after errors, no file of a model that is marked
\* an error was written: neither its record nor its table.
ErrorLeavesNoFile ==
    ~fail_on_error =>
        \A e \in Logged("error") :
            /\ Written("RecordModel", events[e].model) = {}
            /\ Written("TableModel", events[e].model) = {}

\* C25: when a run that goes on after errors ends, the counters of the summary
\* add up to the total, the number of entries of the catalog.
CountersPartitionCatalog ==
    (~fail_on_error /\ pc = "done") =>
        /\ stdout[Len(stdout)].total = Len(model_metadata)
        /\ stdout[Len(stdout)].success + stdout[Len(stdout)].ignored + stdout[Len(stdout)].errors
             = stdout[Len(stdout)].total

\* C21: a run that starts without its output directory still writes its files:
\* no create of the run fails on the missing directory, and the run that gets
\* to its end has written the base file and the registry file.
DirectoryIsCreated ==
    ~directory_exists =>
        /\ \A e \in Logged("raise") : events[e].exception # "FileNotFoundError"
        /\ exc # "FileNotFoundError"
        /\ pc = "done" => /\ Written("BaseModel", BaseModelName) # {}
                          /\ RegistryFile \in DOMAIN files

----------------------------------------------------------------------------
(* Properties of the proxy *)

\* The call of the attribute is over.
AttributeCalled == pc = "returned" /\ call.fn = "ZERPModel.attribute"

\* The call of the attribute made one remote call, to
\* zerp:<database>:<model>:<target>, with its arguments and keyword arguments, and
\* returned or raised what that call did.
OneCallForwarded ==
    /\ Len(wamp_calls) = 1
    /\ wamp_calls[1].op = "call"
    /\ wamp_calls[1].uri
         = <<"zerp", ":", call.database, ":", call.model, ":">>
           \o (IF call.k \in DOMAIN METHOD_SHORTHANDS THEN METHOD_SHORTHANDS[call.k]
                                                      ELSE <<"object.execute.", call.k>>)
    /\ wamp_calls[1].args = call.args
    /\ wamp_calls[1].kwargs = call.kwargs
    /\ ret = wamp_calls[1].outcome

\* C22: the call of any attribute of the proxy is one remote call, forwarded.
AttributeIsOneCall == AttributeCalled => OneCallForwarded

\* C22, for the names that reach __getattr__: the names that the class and
\* __init__ do not define.
UndefinedAttributeIsOneCall ==
    (AttributeCalled /\ call.k \notin {"reports_fetch", "report_fetch_one",
                                       "zerp_", "model_", "schema_"})
        => OneCallForwarded

\* schema called with a keyword argument: a shorthand that is not its own target.
AttributeWitness ==
    /\ AttributeCalled
    /\ call.k = "schema"
    /\ call.kwargs # <<>>
    /\ ret.raised = "none"
    /\ ret.value = <<"rows">>
    /\ wamp_calls[1].uri[Len(wamp_calls[1].uri)] = "fields_get"

\* The polls of the log that found the report ready.
ReadyPolls ==
    {i \in PollsMade : wamp_calls[i].outcome.raised = "none" /\ wamp_calls[i].outcome.value.state}

\* The requests of the report: the calls of report.report.
ReportRequests ==
    {i \in DOMAIN wamp_calls : wamp_calls[i].uri[Len(wamp_calls[i].uri)] = "report"}

\* C30: reports_fetch requests the report once and polls at most PollLimit
\* times; the first poll that finds the report ready is the last, and
\* reports_fetch then returns the list of that one report; after PollLimit polls
\* that did not, it raises.
ReportsFetchContract ==
    (call.fn = "ZERPModel.attribute" /\ call.k = "reports_fetch") =>
        /\ Cardinality(ReportRequests) <= 1
        /\ Cardinality(PollsMade) <= PollLimit
        /\ \A i \in ReadyPolls :
              /\ i = Len(wamp_calls)
              /\ pc = "returned"
              /\ ret.raised = "none"
              /\ Len(ret.value) = 1
              /\ ret.value[1].state
              /\ ret.value[1].data = wamp_calls[i].outcome.value.data
        /\ (pc = "returned" /\ ret.raised = "none") => ReadyPolls # {}
        /\ (Cardinality(PollsMade) = PollLimit /\ ReadyPolls = {}) =>
              (pc = "returned" /\ ret.raised # "none")

----------------------------------------------------------------------------
(* Properties of the prompt *)

InProgress == pc \in {"entered", "expanded", "finally"}

\* C28: call_uri, publish_uri and subscribe_uri leave uri_base as it was when
\* the operation started, on the return and on every exception (the expansion
\* of the URI, the remote operation, metadata that failed); uri_base is empty
\* only while the operation is in progress.
UriBaseIsRestored ==
    IF InProgress THEN uri_base = <<>> ELSE uri_base = call.uri_base

\* publish_uri raised on metadata that failed, with uri_base as it started.
UriBaseWitness ==
    /\ pc = "returned"
    /\ call.fn = "publish_uri"
    /\ ret.raised = "Exception"
    /\ wamp_calls # <<>>
    /\ wamp_calls[1].outcome.raised = "none"
    /\ uri_base = call.uri_base
    /\ uri_base # <<>>

Unsubscribes == {i \in DOMAIN wamp_calls : wamp_calls[i].op = "unsubscribe"}

\* The subscriptions that subscribe_uri returned to do_sub.
Established ==
    {i \in DOMAIN wamp_calls :
        /\ wamp_calls[i].op = "subscribe"
        /\ wamp_calls[i].outcome.raised = "none"
        /\ ~wamp_failed(wamp_calls[i].outcome.value)}

\* do_sub issues one unsubscribe for a subscription that subscribe_uri
\* returned, and none when subscribe_uri failed.
UnsubscribesWhenEstablished ==
    (call.fn = "do_sub" /\ pc \in {"returned", "escaped"} /\ wamp_calls # <<>>) =>
        Cardinality(Unsubscribes) = Cardinality(Established)

\* C29: do_sub unsubscribes exactly when a subscription was established, once
\* on every exit path and never when subscribe_uri failed, and no exception
\* leaves do_sub to close the prompt.
DoSubContract ==
    call.fn = "do_sub" =>
        /\ pc # "escaped"
        /\ pc = "returned" => Cardinality(Unsubscribes) = Cardinality(Established)
        /\ Cardinality(Unsubscribes) <= Cardinality(Established)

====
